---------------------------- MODULE Spec2Model ----------------------------
(***************************************************************************)
(* Model of the compliance monitor: the discovery / dedup / analysis       *)
(* pipeline of app.py, spiders.py and analysis_utils.py.                   *)
(*                                                                         *)
(* Strings are sequences of one-character tokens, so that concatenation,   *)
(* sorting, stripping and truncation are computed and not assumed.  The    *)
(* cryptographic hashes (md5, sha256) are taken to be injective and are    *)
(* represented by their pre-image.  None is the empty sequence where the   *)
(* code only tests truthiness, and a value of its own where the code       *)
(* distinguishes None from "".                                             *)
(***************************************************************************)
EXTENDS Integers, Sequences, FiniteSets, TLC

(***************************************************************************)
(* Bounds of the model.                                                    *)
(***************************************************************************)
MaxRuns == 2
MaxPurges == 1

RunIds == 1..MaxRuns

(***************************************************************************)
(* Characters, in code point order (Python compares str by code point).    *)
(***************************************************************************)
Alphabet == <<" ", "-", "/", "1", "2", "7", "9", "D", "F", "M", "N", "P", "S", "W", "_", "a", "b">>

Ord(c) == CHOOSE i \in 1..Len(Alphabet) : Alphabet[i] = c

Max(S) == CHOOSE x \in S : \A y \in S : y <= x

\* Python's str ordering: lexicographic by code point, a proper prefix first.
RECURSIVE StrLess(_, _)
StrLess(s, t) ==
    IF t = <<>> THEN FALSE
    ELSE IF s = <<>> THEN TRUE
    ELSE IF Head(s) = Head(t) THEN StrLess(Tail(s), Tail(t))
    ELSE Ord(Head(s)) < Ord(Head(t))

RECURSIVE InsertSorted(_, _)
InsertSorted(x, seq) ==
    IF seq = <<>> THEN <<x>>
    ELSE IF StrLess(Head(seq), x) THEN <<Head(seq)>> \o InsertSorted(x, Tail(seq))
    ELSE <<x>> \o seq

\* sorted(list_of_str)
RECURSIVE Sorted(_)
Sorted(seq) == IF seq = <<>> THEN <<>> ELSE InsertSorted(Head(seq), Sorted(Tail(seq)))

RECURSIVE Concat(_)
Concat(seq) == IF seq = <<>> THEN <<>> ELSE Head(seq) \o Concat(Tail(seq))

(***************************************************************************)
(* Dates.  0 is None; the listing dates are day numbers.  Iso is the text  *)
(* str(date) gives, here a one-character token per date.                   *)
(***************************************************************************)
NoDate == 0
\* the cutoff day of a spider on the first day (100 days back for FBR, 180
\* for SECP and PCP); the listing dates below lie on one side of all three
CutoffDate == 2
OldDate == CutoffDate - 1
RecentDate == CutoffDate
Iso(d) == IF d = OldDate THEN <<"7">> ELSE <<"9">>


(***************************************************************************)
(* Identity and paths.                                                     *)
(***************************************************************************)
\* BaseSpider.generate_regulation_id: md5 of "source_ref_date", with the
\* sentinel NODATE when the date is falsy.  md5 is represented by its input.
generate_regulation_id(source, ref_number, date) ==
    IF date # NoDate
    THEN source \o <<"_">> \o ref_number \o <<"_">> \o Iso(date)
    ELSE source \o <<"_">> \o ref_number \o <<"_", "N", "D">>

\* re.sub(r'[^\w\-]', '_', ref): every character outside [A-Za-z0-9_-] becomes "_".
NonWord == {" ", "/"}
RECURSIVE safe_ref(_)
safe_ref(ref) ==
    IF ref = <<>> THEN <<>>
    ELSE <<IF Head(ref) \in NonWord THEN "_" ELSE Head(ref)>> \o safe_ref(Tail(ref))

\* The file name each save_pdf builds (the directory and ".pdf" are the same
\* for all and left out).  FBR formats the date with str(), so None gives
\* "None"; SECP leaves the date out; PCP uses isoformat() or "NODATE".
FBRFile(ref, date) ==
    <<"F">> \o <<"_">> \o safe_ref(ref) \o <<"_">> \o (IF date = NoDate THEN <<"N">> ELSE Iso(date))
SECPFile(ref) == <<"S">> \o <<"_">> \o safe_ref(ref)
PCPFile(ref, date) ==
    <<"P">> \o <<"_">> \o safe_ref(ref) \o <<"_">> \o (IF date = NoDate THEN <<"N", "D">> ELSE Iso(date))

\* What urlparse gives of a string: the wpdmdl query parameter (<<>> when
\* there is none) and the last segment of the path without ".pdf".  A text
\* that is no URL, such as a title, is all path.
WpdmUrl(wpdmdl) == [wpdmdl |-> wpdmdl, tail |-> << >>]
PlainUrl(text) == [wpdmdl |-> << >>, tail |-> text]

FallbackMaxLen == 50

\* BaseSpider.generate_fallback_ref: "SECP-WPDM-<id>" for a wpdmdl link,
\* otherwise "SECP-" and the first 50 characters of the file name
\* ("document" for an empty path).
generate_fallback_ref(url) ==
    IF url.wpdmdl # << >> THEN <<"S", "-", "W", "-">> \o url.wpdmdl
    ELSE IF url.tail = << >> THEN <<"S", "-", "d">>
    ELSE <<"S", "-">> \o SubSeq(url.tail, 1, IF Len(url.tail) < FallbackMaxLen
                                               THEN Len(url.tail) ELSE FallbackMaxLen)

\* hash_urls with the urls hashed in the order given
HashInOrder(urls) == <<"sha256", Concat(urls)>>

\* FBRSpider.hash_urls: sha256 over the concatenation of the sorted urls.
\* The digest is a pair, never empty: the digest of no urls is a hex
\* string like every other.
hash_urls(urls) == <<"sha256", Concat(Sorted(urls))>>

(***************************************************************************)
(* The sites.  Each feed lists rows; the rows are what the crawlers read.  *)
(* The FBR rows of the two departments carry the same SRO number and date  *)
(* under different file names, so both are requested (Scrapy's duplicate   *)
(* filter drops a second request for the same URL only).                   *)
(***************************************************************************)
Departments == <<"IncomeTax", "SalesTax">>

FBRRows(dept) ==
    IF dept = "IncomeTax"
    THEN << [SRONumber |-> <<"1">>, Title |-> <<"a">>, CreationDate |-> RecentDate, UploadedFile1 |-> <<"a">>] >>
    ELSE << [SRONumber |-> <<"1">>, Title |-> <<"b">>, CreationDate |-> RecentDate, UploadedFile1 |-> <<"b">>],
            [SRONumber |-> <<"2">>, Title |-> <<"a">>, CreationDate |-> OldDate, UploadedFile1 |-> <<"2">>] >>

\* What SECP and PCP list: on a busy day a recent SECP document and a
\* Part-II gazette; on a calm day an SECP document older than the cutoff
\* and a Part-III gazette, which both spiders pass over; where the days
\* pass ("aging") an SECP document dated on the first day's cutoff and a
\* Part-III gazette.
SECPRows(site) ==
    << [date |-> IF site = "calm" THEN OldDate ELSE RecentDate,
        title |-> <<"a">>, wpdmdl |-> <<"7">>] >>

PCPRows(site) ==
    << [job_id |-> <<"9">>, title |-> <<"b">>, date |-> RecentDate,
        parts |-> IF site = "busy" THEN 2 ELSE 3] >>

\* run_spiders: the order in which crawl() invokes the spiders.
SpiderOrder == <<"FBR", "SECP", "PCP">>
NSpiders == Len(SpiderOrder)

SourceTag(name) == IF name = "FBR" THEN <<"F">> ELSE IF name = "SECP" THEN <<"S">> ELSE <<"P">>

(***************************************************************************)
(* Texts.  A text is a sequence of runs [c, n]: n characters of class c,   *)
(* "ws" whitespace, "an" alphanumeric, "sy" any other character, and "wm"  *)
(* one occurrence of the ten letters of the scanner watermark (in any      *)
(* case).  None is NoneText, the empty string is <<>>.                     *)
(***************************************************************************)
NoneText == << [c |-> "none", n |-> 0] >>
WmLen == 10
Run(c, n) == << [c |-> c, n |-> n] >>

RECURSIVE TLen(_)
TLen(t) == IF t = <<>> THEN 0 ELSE Head(t).n + TLen(Tail(t))

\* bool(text): None and "" are falsy.
Truthy(t) == t # NoneText /\ TLen(t) > 0

\* text[:k]; a watermark cut short is no watermark any more.
RECURSIVE Trunc(_, _)
Trunc(t, k) ==
    IF t = <<>> \/ k <= 0 THEN <<>>
    ELSE IF Head(t).n <= k THEN <<Head(t)>> \o Trunc(Tail(t), k - Head(t).n)
    ELSE Run(IF Head(t).c = "wm" THEN "an" ELSE Head(t).c, k)

RECURSIVE LStrip(_)
LStrip(t) == IF t # <<>> /\ Head(t).c = "ws" THEN LStrip(Tail(t)) ELSE t

RECURSIVE RStrip(_)
RStrip(t) ==
    IF t # <<>> /\ t[Len(t)].c = "ws" THEN RStrip(SubSeq(t, 1, Len(t) - 1)) ELSE t

\* str.strip()
Strip(t) == RStrip(LStrip(t))

\* the characters ch with ch.isalnum() or ch.isspace()
RECURSIVE CleanLen(_)
CleanLen(t) ==
    IF t = <<>> THEN 0
    ELSE (IF Head(t).c = "sy" THEN 0 ELSE Head(t).n) + CleanLen(Tail(t))

\* "camscanner" in text.lower()
HasWatermark(t) == \E i \in 1..Len(t) : t[i].c = "wm"

MinTextLen == 200
WatermarkMaxLen == 1000
\* the ratio 0.4, as CleanRatioNum / CleanRatioDen
CleanRatioNum == 4
CleanRatioDen == 10

\* line 56 with <= for <
TooShortInclusive(total) == total <= MinTextLen

\* line 56: len(text) < 200
TooShort(total) == total < MinTextLen

\* line 55 left out: the text is measured as it came
Unstripped(extracted_text) == extracted_text

\* line 55: text = extracted_text.strip()
Stripped(extracted_text) == Strip(extracted_text)

\* analysis_utils.needs_ocr
needs_ocr(extracted_text) ==
    IF ~Truthy(extracted_text) THEN TRUE
    ELSE LET text == Stripped(extracted_text)
             total == TLen(text)
             clean == CleanLen(text)
         IN  IF TooShort(total) THEN TRUE
             ELSE IF clean * CleanRatioDen < CleanRatioNum * total THEN TRUE
             ELSE IF HasWatermark(text) /\ total < WatermarkMaxLen THEN TRUE
             ELSE FALSE

MaxChars == 12000
BedrockMaxChars == 8000

\* The pages PdfReader yields: the loop of extract_pdf_text appends
\* page.extract_text() or "" and stops once the accumulated length reaches
\* max_chars.
RECURSIVE TakePages(_, _, _)
TakePages(pages, acc, max_chars) ==
    IF pages = <<>> THEN <<>>
    ELSE IF acc + TLen(Head(pages)) >= max_chars THEN <<Head(pages)>>
    ELSE <<Head(pages)>> \o TakePages(Tail(pages), acc + TLen(Head(pages)), max_chars)

\* "\n\n".join(chunks)
RECURSIVE JoinPages(_)
JoinPages(chunks) ==
    IF chunks = <<>> THEN <<>>
    ELSE IF Len(chunks) = 1 THEN Head(chunks)
    ELSE Head(chunks) \o Run("ws", 2) \o JoinPages(Tail(chunks))

\* extract_pdf_text, lines 162-185: the PyPDF text, "" when decoding raises.
PrimaryText(pdf, max_chars) ==
    IF pdf.raises THEN <<>>
    ELSE Trunc(JoinPages(TakePages(pdf.pages, 0, max_chars)), max_chars)

\* extract_pdf_text_with_gemini: [text, api], api = generate_content was called.
extract_pdf_text_with_gemini(file_exists, gemini, max_chars) ==
    IF ~gemini.available THEN [text |-> NoneText, api |-> FALSE]
    ELSE IF ~file_exists THEN [text |-> NoneText, api |-> FALSE]
    ELSE IF gemini.raises THEN [text |-> NoneText, api |-> TRUE]
    ELSE LET text == Strip(IF gemini.text = NoneText THEN <<>> ELSE gemini.text)
         IN  IF ~Truthy(text) THEN [text |-> NoneText, api |-> TRUE]
             ELSE [text |-> Trunc(text, max_chars), api |-> TRUE]

OrNone(t) == IF Truthy(t) THEN t ELSE NoneText

\* line 187 without the quality gate: any text is accepted
AnyTextAccepted(full_text) == Truthy(full_text)

\* line 187: the primary text is accepted and returned as it is
PrimaryAccepted(full_text) == Truthy(full_text) /\ ~needs_ocr(full_text)

\* lines 201-206 with the primary text stripped as in line 191
PreferOcrStripped(ocr_text, full_text) ==
    IF Truthy(ocr_text) THEN ocr_text ELSE OrNone(Strip(full_text))

\* lines 201-206: the result once OCR has been tried
PreferOcr(ocr_text, full_text) == IF Truthy(ocr_text) THEN ocr_text ELSE OrNone(full_text)

\* lines 162-182 with no except clause after them
DecodeErrorUncaught(pdf) == ~pdf.raises

\* lines 183-185: except Exception takes whatever PdfReader or
\* page.extract_text() raised
DecodeErrorCaught(pdf) == TRUE

\* extract_pdf_text: [text, ocr, api, raised]; ocr = extract_pdf_text_with_gemini
\* was invoked (line 199), api = the Gemini request was sent, raised = the
\* call ended with an exception instead of a result.
extract_pdf_text(file, pdf, use_ocr, gemini, max_chars) ==
    LET result(text, ocr, api) == [text |-> text, ocr |-> ocr, api |-> api, raised |-> FALSE]
    IN  IF ~file.path \/ ~file.exists THEN result(NoneText, FALSE, FALSE)
        ELSE IF ~DecodeErrorCaught(pdf)
        THEN [text |-> NoneText, ocr |-> FALSE, api |-> FALSE, raised |-> TRUE]
        ELSE LET full_text == PrimaryText(pdf, max_chars)
             IN  IF PrimaryAccepted(full_text)
                 THEN result(Strip(full_text), FALSE, FALSE)
                 ELSE IF ~use_ocr
                 THEN result(OrNone(Strip(full_text)), FALSE, FALSE)
                 ELSE LET o == extract_pdf_text_with_gemini(file.exists, gemini, max_chars)
                      IN  result(PreferOcr(o.text, full_text), TRUE, o.api)

\* clean_for_bedrock: control characters become spaces, whitespace runs are
\* collapsed to one space by " ".join(text.split()), then text[:max_chars].strip().
RECURSIVE Collapse(_)
Collapse(t) ==
    IF t = <<>> THEN <<>>
    ELSE IF Head(t).c = "ws" THEN Run("ws", 1) \o Collapse(LStrip(Tail(t)))
    ELSE <<Head(t)>> \o Collapse(Tail(t))

clean_for_bedrock(text, max_chars) ==
    IF ~Truthy(text) THEN <<>>
    ELSE Strip(Trunc(Collapse(Strip(text)), max_chars))

(***************************************************************************)
(* State.                                                                  *)
(***************************************************************************)
VARIABLES
    regs,           \* table regulations: the committed Regulation rows
    analyses,       \* table regulation_analyses: regulation pk -> number of rows
    page_hashes,    \* table page_hashes: rows [page_url, content_hash, last_checked]
    logs,           \* table scrape_logs: run -> committed ScrapeLog row
    files,          \* ./downloads/pdfs: rows [path, content]
    clock,          \* datetime.utcnow(), counted in run starts
    purges,         \* purges done so far
    pc,             \* where each scrape_regulations call stands
    frame,          \* run -> the locals of its scrape_regulations call
    exc,            \* run -> the exception its outer try caught
    ret,            \* run -> the pair it returned
    spider_error,   \* run -> run_spiders raised (line 159)
    crawl,          \* run -> number of spiders crawl() has invoked
    requests,       \* run -> requests its running spider has scheduled
    inserted,       \* run -> Regulation rows its spiders have stored
    last_write,     \* run -> outcome of the latest save_pdf of its running crawl
    ex,             \* input and result of one extract_pdf_text call
    env             \* what the surroundings do in this behaviour

dbvars == <<regs, analyses, page_hashes, logs, files, clock, purges>>
runvars == <<pc, frame, exc, ret, spider_error>>
crawlvars == <<crawl, requests, inserted, last_write>>
vars == <<dbvars, runvars, crawlvars, ex, env>>

NoLog == [status |-> "none", started_at |-> 0, completed_at |-> 0,
          regulations_found |-> 0, new_downloads |-> 0, error_message |-> "none"]
NoMeta == [regulation_id |-> <<>>, source |-> "none", reference_number |-> <<>>,
           issue_date |-> NoDate, content |-> <<>>]
NoWrite == [kind |-> "none", raised |-> FALSE]
ExIdle == [file |-> [path |-> FALSE, exists |-> FALSE],
           pdf |-> [raises |-> TRUE, pages |-> <<>>],
           use_ocr |-> FALSE,
           gemini |-> [available |-> FALSE, raises |-> FALSE, text |-> NoneText],
           done |-> FALSE,
           out |-> [text |-> NoneText, ocr |-> FALSE, api |-> FALSE, raised |-> FALSE]]

\* the locals of scrape_regulations before line 152; ocr_docs lists the pk
\* of the document of each OCR invocation of the run, notified is the
\* outcome of lines 201-210 and caught names the errors that the calls of
\* the run's latest step caught and logged
NoFrame == [count_before |-> 0, count_after |-> 0,
            new_regs |-> << >>, idx |-> 1, text |-> NoneText, analysis_obj |-> FALSE,
            alerts_payload |-> << >>, expired |-> FALSE, ocr_docs |-> << >>,
            notified |-> "none", caught |-> {}]

\* The surroundings explored: one run on a busy day with a store and sites
\* that can fail and purges at any moment; overlapping runs on a calm day
\* while nothing fails; and, while nothing fails and PyPDF, Gemini and
\* Bedrock answer well, a run overlapped or followed, a day later, by
\* analyze_recent_regulations in mode "scrape", which purges and then runs
\* with test_mode=True; and runs that overlap or follow one another on a
\* busy day while nothing fails and the services answer well.
\* runs is the number of scrape_regulations calls (the scheduler job, POST
\* /api/scrape/trigger and analyze_recent_regulations), purges the number
\* of simulate_new_regulations calls, test_run the run that
\* analyze_recent_regulations starts (0: none).
Scenarios ==
    { [runs |-> 1, purges |-> MaxPurges, faults |-> TRUE, site |-> "busy",
       services |-> "flaky", test_run |-> 0],
      [runs |-> MaxRuns, purges |-> 0, faults |-> FALSE, site |-> "calm",
       services |-> "flaky", test_run |-> 0],
      [runs |-> MaxRuns, purges |-> MaxPurges, faults |-> FALSE, site |-> "aging",
       services |-> "steady", test_run |-> MaxRuns],
      [runs |-> MaxRuns, purges |-> 0, faults |-> FALSE, site |-> "busy",
       services |-> "steady", test_run |-> 0] }

\* scrape_regulations(test_mode=...): only the run of line 331 sets it
test_mode(r) == r = env.test_run

\* the outcomes of a query or commit: TRUE it succeeds, FALSE it raises
Outcomes == IF env.faults THEN BOOLEAN ELSE {TRUE}

\* app.py __main__: db.create_all() on an empty database, no run started.
Quiet ==
    /\ regs = {}
    /\ analyses = [k \in {} |-> 0]
    /\ page_hashes = {}
    /\ logs = [r \in RunIds |-> NoLog]
    /\ files = {}
    /\ clock = 0
    /\ purges = 0
    /\ pc = [r \in RunIds |-> "idle"]
    /\ frame = [r \in RunIds |-> NoFrame]
    /\ exc = [r \in RunIds |-> "none"]
    /\ ret = [r \in RunIds |-> << >>]
    /\ spider_error = [r \in RunIds |-> FALSE]
    /\ crawl = [r \in RunIds |-> 0]
    /\ requests = [r \in RunIds |-> {}]
    /\ inserted = [r \in RunIds |-> 0]
    /\ last_write = [r \in RunIds |-> NoWrite]

Init == Quiet /\ ex = ExIdle /\ env \in Scenarios

(***************************************************************************)
(* The store.                                                              *)
(***************************************************************************)
\* SQLite INTEGER PRIMARY KEY without AUTOINCREMENT: one more than the largest.
NextId(rows) == IF rows = {} THEN 1 ELSE Max({x.id : x \in rows}) + 1

\* an existence check that finds nothing
NeverExists(rows, regulation_id) == FALSE

\* BaseSpider.regulation_exists
regulation_exists(rows, regulation_id) == \E x \in rows : x.regulation_id = regulation_id

\* a regulation_id column without its unique index
NoUniqueViolation(rows, row) == FALSE

\* models.Regulation.regulation_id: unique=True
UniqueViolation(rows, row) == \E x \in rows : x.regulation_id = row.regulation_id

\* db.session.add(regulation); db.session.commit(): [rows, ok]; the unique
\* index makes the commit raise IntegrityError and store nothing.
InsertRegulation(rows, row) ==
    IF UniqueViolation(rows, row) THEN [rows |-> rows, ok |-> FALSE]
    ELSE [rows |-> rows \cup {[row EXCEPT !.id = NextId(rows)]}, ok |-> TRUE]

RowById(rows, id) == CHOOSE x \in rows : x.id = id
HasId(rows, id) == \E x \in rows : x.id = id

\* open(filepath, 'wb').write(content)
WriteFile(fs, path, content) == {f \in fs : f.path # path} \cup {[path |-> path, content |-> content]}
\* os.path.exists(path)
FileExists(fs, path) == \E f \in fs : f.path = path

\* FBRSpider.get_stored_hash: the stored digest, <<>> for None
get_stored_hash(hashes, page_url) ==
    IF \E h \in hashes : h.page_url = page_url
    THEN (CHOOSE h \in hashes : h.page_url = page_url).content_hash
    ELSE << >>

\* store_hash without the lookup of line 406: a row is added every time
StoreHashAdds(hashes, page_url, new_hash, now) ==
    hashes \cup {[page_url |-> page_url, content_hash |-> new_hash, last_checked |-> now]}

\* FBRSpider.store_hash: update the row of the page, or add one
store_hash(hashes, page_url, new_hash, now) ==
    IF \E h \in hashes : h.page_url = page_url
    THEN {IF h.page_url = page_url
          THEN [h EXCEPT !.content_hash = new_hash, !.last_checked = now]
          ELSE h : h \in hashes}
    ELSE hashes \cup {[page_url |-> page_url, content_hash |-> new_hash, last_checked |-> now]}

\* the number of RegulationAnalysis rows of a regulation pk
AnalysisCount(a, id) == IF id \in DOMAIN a THEN a[id] ELSE 0
AddAnalysis(a, id) ==
    [k \in DOMAIN a \cup {id} |-> IF k = id THEN AnalysisCount(a, id) + 1 ELSE a[k]]

(***************************************************************************)
(* The spiders.  All spiders of all runs share the one Twisted reactor     *)
(* thread (crochet), so a callback runs to its end before the next starts. *)
(***************************************************************************)
Range(seq) == {seq[i] : i \in 1..Len(seq)}

ParseRequest(cb, dept) == [cb |-> cb, dept |-> dept, meta |-> NoMeta]
SaveRequest(meta) == [cb |-> "save_pdf", dept |-> "none", meta |-> meta]

\* start_requests of each spider, up to the listing callbacks (the FBR
\* chain start_requests -> post_loadsros -> parse_api keeps no state).
StartRequests(name) ==
    IF name = "FBR" THEN {ParseRequest("parse_api", d) : d \in Range(Departments)}
    ELSE IF name = "SECP" THEN {ParseRequest("secp_parse", "none")}
    ELSE {ParseRequest("pcp_parse", "none")}

\* datetime.now().date() - timedelta(days=...), lines 313, 490 and 719, for
\* the spiders of a run started at started_at: where the days pass, each
\* run starts a day after the one before
cutoff_date(started_at) ==
    IF env.site = "aging" THEN CutoffDate + started_at - 1 ELSE CutoffDate

\* parse_api, line 342: is_recent
is_recent(issue_date, cutoff) == issue_date = NoDate \/ issue_date >= cutoff

\* Regulation(...) as the metadata-only branch of parse_api builds it
MetadataRow(regulation_id, source, ref, date, now) ==
    [id |-> 0, regulation_id |-> regulation_id, source |-> source,
     reference_number |-> ref, issue_date |-> date, file_path |-> << >>,
     content_hash |-> << >>, status |-> "tracked_no_pdf", domain |-> "none",
     discovered_at |-> now]

\* Regulation(...) as save_pdf builds it
ContentRow(meta, path, now) ==
    [id |-> 0, regulation_id |-> meta.regulation_id, source |-> meta.source,
     reference_number |-> meta.reference_number, issue_date |-> meta.issue_date,
     file_path |-> path, content_hash |-> meta.content, status |-> "new",
     domain |-> "none", discovered_at |-> now]

\* parse_api, lines 294-306: the digest of the listing
StableId(row) ==
    IF row.SRONumber # << >> THEN row.SRONumber
    ELSE IF row.Title # << >> THEN row.Title ELSE row.UploadedFile1

RECURSIVE StableIds(_)
StableIds(rows) ==
    IF rows = << >> THEN << >>
    ELSE (IF StableId(Head(rows)) # << >> THEN <<StableId(Head(rows))>> ELSE << >>)
         \o StableIds(Tail(rows))

CurrentHash(rows) == hash_urls(Sorted(StableIds(rows)))

FBRPageKey(dept) == <<"FBR", dept>>

\* parse_api, lines 308-311: the page is skipped as unchanged
PageUnchanged(stored_hash, current_hash) == stored_hash # << >> /\ stored_hash = current_hash

\* parse_api, lines 316 and 328-329: the SRO number, or the fallback
\* reference of `file_field or title_text`
FBRRef(row) ==
    IF row.SRONumber # << >> THEN row.SRONumber
    ELSE generate_fallback_ref(PlainUrl(IF row.UploadedFile1 # << >>
                                        THEN row.UploadedFile1 ELSE row.Title))

\* parse_api, lines 331-332
FBRId(row) == generate_regulation_id(SourceTag("FBR"), FBRRef(row), row.CreationDate)

\* parse_api, lines 313-381, row by row: st = [regs, reqs, err]
RECURSIVE FBRParseRows(_, _, _, _)
FBRParseRows(rows, st, now, cutoff) ==
    IF rows = << >> \/ st.err THEN st
    ELSE LET row == Head(rows)
             ref == FBRRef(row)
             date == row.CreationDate
             rid == FBRId(row)
             meta == [regulation_id |-> rid, source |-> "FBR", reference_number |-> ref,
                      issue_date |-> date, content |-> row.UploadedFile1]
             ins == InsertRegulation(st.regs, MetadataRow(rid, "FBR", ref, date, now))
         IN  IF regulation_exists(st.regs, rid) THEN FBRParseRows(Tail(rows), st, now, cutoff)
             ELSE IF is_recent(date, cutoff)
             THEN FBRParseRows(Tail(rows), [st EXCEPT !.reqs = @ \cup {SaveRequest(meta)}],
                               now, cutoff)
             ELSE FBRParseRows(Tail(rows),
                               [st EXCEPT !.regs = ins.rows, !.err = ~ins.ok], now, cutoff)

\* FBRSpider.parse_api for one department
ParseApi(r, req) ==
    /\ req \in requests[r] /\ req.cb = "parse_api"
    /\ LET rows == FBRRows(req.dept)
           current_hash == CurrentHash(rows)
           stored_hash == get_stored_hash(page_hashes, FBRPageKey(req.dept))
           st == FBRParseRows(rows, [regs |-> regs, reqs |-> {}, err |-> FALSE], clock,
                              cutoff_date(logs[r].started_at))
       IN  IF PageUnchanged(stored_hash, current_hash)
           THEN /\ requests' = [requests EXCEPT ![r] = @ \ {req}]
                /\ UNCHANGED <<regs, page_hashes, inserted>>
           ELSE /\ regs' = st.regs
                /\ inserted' = [inserted EXCEPT ![r] = @ + Cardinality(st.regs) - Cardinality(regs)]
                /\ requests' = [requests EXCEPT ![r] = (@ \ {req}) \cup st.reqs]
                /\ page_hashes' = IF st.err THEN page_hashes
                                  ELSE store_hash(page_hashes, FBRPageKey(req.dept),
                                                  current_hash, clock)
    /\ UNCHANGED <<analyses, logs, files, clock, purges, runvars, crawl, last_write, ex, env>>

\* SECPSpider.parse, lines 533-587, for the rows with a wpdmdl link
RECURSIVE SECPParseRows(_, _, _)
SECPParseRows(rows, rs, cutoff) ==
    IF rows = << >> THEN {}
    ELSE LET row == Head(rows)
             ref == generate_fallback_ref(WpdmUrl(row.wpdmdl))
             rid == generate_regulation_id(SourceTag("SECP"), ref, NoDate)
             meta == [regulation_id |-> rid, source |-> "SECP", reference_number |-> ref,
                      issue_date |-> row.date, content |-> row.wpdmdl]
         IN  IF (row.date # NoDate /\ row.date < cutoff) \/ regulation_exists(rs, rid)
             THEN SECPParseRows(Tail(rows), rs, cutoff)
             ELSE {SaveRequest(meta)} \cup SECPParseRows(Tail(rows), rs, cutoff)

SecpParse(r, req) ==
    /\ req \in requests[r] /\ req.cb = "secp_parse"
    /\ requests' = [requests EXCEPT ![r] =
                       (@ \ {req}) \cup SECPParseRows(SECPRows(env.site), regs,
                                                     cutoff_date(logs[r].started_at))]
    /\ UNCHANGED <<dbvars, runvars, crawl, inserted, last_write, ex, env>>

\* PCPGazetteSpider.parse, lines 734-801: Part-II rows only
RECURSIVE PCPParseRows(_, _, _)
PCPParseRows(rows, rs, cutoff) ==
    IF rows = << >> THEN {}
    ELSE LET row == Head(rows)
             ref == row.job_id
             rid == generate_regulation_id(SourceTag("PCP"), ref, row.date)
             meta == [regulation_id |-> rid, source |-> "PCP", reference_number |-> ref,
                      issue_date |-> row.date, content |-> row.job_id]
         IN  IF row.parts # 2 \/ (row.date # NoDate /\ row.date < cutoff)
                \/ regulation_exists(rs, rid)
             THEN PCPParseRows(Tail(rows), rs, cutoff)
             ELSE {SaveRequest(meta)} \cup PCPParseRows(Tail(rows), rs, cutoff)

PcpParse(r, req) ==
    /\ req \in requests[r] /\ req.cb = "pcp_parse"
    /\ requests' = [requests EXCEPT ![r] =
                       (@ \ {req}) \cup PCPParseRows(PCPRows(env.site), regs,
                                                    cutoff_date(logs[r].started_at))]
    /\ UNCHANGED <<dbvars, runvars, crawl, inserted, last_write, ex, env>>

\* the path each spider's save_pdf writes to
SavePath(meta) ==
    IF meta.source = "FBR" THEN FBRFile(meta.reference_number, meta.issue_date)
    ELSE IF meta.source = "SECP" THEN SECPFile(meta.reference_number)
    ELSE PCPFile(meta.reference_number, meta.issue_date)

\* FBRSpider.save_pdf, SECPSpider.save_pdf, PCPGazetteSpider.save_pdf: the
\* file is written first, then the row is added and committed; nothing
\* catches the IntegrityError of the commit.
SavePdf(r, req) ==
    /\ req \in requests[r] /\ req.cb = "save_pdf"
    /\ LET path == SavePath(req.meta)
           ins == InsertRegulation(regs, ContentRow(req.meta, path, clock))
       IN  /\ files' = WriteFile(files, path, req.meta.content)
           /\ regs' = ins.rows
           /\ inserted' = [inserted EXCEPT ![r] = IF ins.ok THEN @ + 1 ELSE @]
           /\ last_write' = [last_write EXCEPT ![r] =
                                [kind |-> IF regulation_exists(regs, req.meta.regulation_id)
                                          THEN "conflict" ELSE "insert",
                                 raised |-> ~ins.ok]]
    /\ requests' = [requests EXCEPT ![r] = @ \ {req}]
    /\ UNCHANGED <<analyses, page_hashes, logs, clock, purges, runvars, crawl, ex, env>>

\* crawl(): yield runner.crawl(<next spider>) once the one before has ended
CrawlNext(r) ==
    /\ pc[r] = "run_spiders" /\ requests[r] = {} /\ crawl[r] < NSpiders
    /\ crawl' = [crawl EXCEPT ![r] = @ + 1]
    /\ requests' = [requests EXCEPT ![r] = StartRequests(SpiderOrder[crawl[r] + 1])]
    /\ UNCHANGED <<dbvars, runvars, inserted, last_write, ex, env>>

(***************************************************************************)
(* scrape_regulations.  Every query and commit of the orchestrating thread *)
(* either succeeds or raises: the store is SQLite, written by the reactor  *)
(* thread and by other runs at the same time.                              *)
(***************************************************************************)
\* lines 144-146: the ScrapeLog row of a new run; the scheduler and
\* trigger_scrape start runs with no guard against one in flight.
NewLog(now) == [NoLog EXCEPT !.status = "running", !.started_at = now]

\* a lock taken by scrape_regulations: no run is in flight
NoRunInFlight(positions) == \A q \in RunIds : positions[q] \in {"idle", "done"}

\* app.py lines 454-458 and 544-560: Thread(target=scrape_regulations).start()
\* and the scheduler's job call scrape_regulations whatever else is running
MayStart(positions) == TRUE

StartRun(r) ==
    /\ pc[r] = "idle" /\ r <= env.runs
    /\ test_mode(r) => purges > 0
    /\ \A q \in 1..(r - 1) : pc[q] # "idle"
    /\ MayStart(pc)
    /\ logs' = [logs EXCEPT ![r] = NewLog(clock + 1)]
    /\ clock' = clock + 1
    /\ pc' = [pc EXCEPT ![r] = "count_before"]
    /\ UNCHANGED <<regs, analyses, page_hashes, files, purges, frame, exc, ret,
                   spider_error, crawlvars, ex, env>>

\* an exception inside the outer try: control goes to the handler, line
\* 222, which reads none of the locals
Raise(r, msg) ==
    /\ pc' = [pc EXCEPT ![r] = "handler"]
    /\ exc' = [exc EXCEPT ![r] = msg]
    /\ frame' = [frame EXCEPT ![r] = NoFrame]

\* line 152
CountBefore(r) ==
    /\ pc[r] = "count_before"
    /\ \E ok \in Outcomes :
         IF ok
         THEN /\ frame' = [frame EXCEPT ![r].count_before = Cardinality(regs)]
              /\ pc' = [pc EXCEPT ![r] = "run_spiders"]
              /\ exc' = exc
         ELSE Raise(r, "OperationalError")
    /\ UNCHANGED <<dbvars, ret, spider_error, crawlvars, ex, env>>

\* run_spiders called with no try of its own: its failure reaches line 222
AfterSpiderErrorFatal == "handler"

\* lines 156-160: where control goes when run_spiders raises
AfterSpiderError == "count_after"

\* run_spiders returns: the last spider has ended
RunSpidersReturn(r) ==
    /\ pc[r] = "run_spiders" /\ crawl[r] = NSpiders /\ requests[r] = {}
    /\ pc' = [pc EXCEPT ![r] = "count_after"]
    /\ last_write' = [last_write EXCEPT ![r] = NoWrite]
    /\ UNCHANGED <<dbvars, frame, exc, ret, spider_error, crawl, requests, inserted, ex, env>>

\* run_spiders raises: runner.crawl of the next spider fails, or the spider
\* that is running fails or wait_for(timeout=300) gives up on it.  crawl()
\* is an inlineCallbacks generator with no try: the failure is re-raised at
\* its yield and the spiders after it are not reached.
RunSpidersRaises(r) ==
    /\ pc[r] = "run_spiders" /\ env.faults
    /\ crawl[r] < NSpiders \/ requests[r] # {}
    /\ crawl' = [crawl EXCEPT ![r] = IF requests[r] = {} THEN @ + 1 ELSE @]
    /\ requests' = [requests EXCEPT ![r] = {}]
    /\ spider_error' = [spider_error EXCEPT ![r] = TRUE]
    /\ IF AfterSpiderError = "handler"
       THEN Raise(r, "spider")
       ELSE /\ pc' = [pc EXCEPT ![r] = AfterSpiderError]
            /\ UNCHANGED <<exc, frame>>
    /\ last_write' = [last_write EXCEPT ![r] = NoWrite]
    /\ UNCHANGED <<dbvars, ret, inserted, ex, env>>

\* lines 164-165
CountAfter(r) ==
    /\ pc[r] = "count_after"
    /\ \E ok \in Outcomes :
         IF ok
         THEN /\ frame' = [frame EXCEPT ![r].count_after = Cardinality(regs)]
              /\ pc' = [pc EXCEPT ![r] = "select_new"]
              /\ exc' = exc
         ELSE Raise(r, "OperationalError")
    /\ UNCHANGED <<dbvars, ret, spider_error, crawlvars, ex, env>>

\* x was discovered before y.  Rows of one clock value are told apart by
\* their pk: a new row gets a pk above every row stored at that time.
Earlier(x, y) ==
    \/ x.discovered_at < y.discovered_at
    \/ x.discovered_at = y.discovered_at /\ x.id < y.id

\* order_by(Regulation.discovered_at.asc()): the pks in that order
RECURSIVE ByDiscovery(_)
ByDiscovery(rows) ==
    IF rows = {} THEN << >>
    ELSE LET first == CHOOSE x \in rows : \A y \in rows : ~Earlier(y, x)
         IN  <<first.id>> \o ByDiscovery(rows \ {first})

\* a query that gives every new row twice
NewRegsTwice(rows, started_at) ==
    ByDiscovery({x \in rows : x.discovered_at >= started_at})
        \o ByDiscovery({x \in rows : x.discovered_at >= started_at})

\* lines 168-170: the rows discovered since the run began
NewRegs(rows, started_at) == ByDiscovery({x \in rows : x.discovered_at >= started_at})

\* lines 172-173: the status the run gives each new row
MarkNew(row) == [row EXCEPT !.status = "new"]

\* the step after a document: the next one, or line 198
AfterDoc(new_regs, i) == IF i > Len(new_regs) THEN "notify" ELSE "loop"

\* lines 168-174
SelectNew(r) ==
    /\ pc[r] = "select_new"
    /\ \E ok \in Outcomes :
         IF ok
         THEN LET ids == NewRegs(regs, logs[r].started_at)
              IN  /\ frame' = [frame EXCEPT ![r].new_regs = ids, ![r].idx = 1]
                  /\ regs' = {IF x.id \in Range(ids) THEN MarkNew(x) ELSE x : x \in regs}
                  /\ pc' = [pc EXCEPT ![r] = AfterDoc(ids, 1)]
                  /\ exc' = exc
         ELSE Raise(r, "OperationalError") /\ UNCHANGED regs
    /\ UNCHANGED <<analyses, page_hashes, logs, files, clock, purges, ret, spider_error,
                   crawlvars, ex, env>>

(***************************************************************************)
(* The documents of a run, lines 179-195.  What the PDF decodes to, what   *)
(* Gemini and Bedrock answer are inputs chosen per call.                   *)
(***************************************************************************)
GoodText == Run("an", 300)
WeakText == Run("sy", 50)

RunPdfs == { [raises |-> TRUE, pages |-> << >>],
             [raises |-> FALSE, pages |-> <<GoodText>>],
             [raises |-> FALSE, pages |-> <<WeakText>>],
             [raises |-> FALSE, pages |-> << << >>, << >> >>] }

RunGeminis == { [available |-> TRUE, raises |-> FALSE, text |-> NoneText],
                [available |-> TRUE, raises |-> FALSE, text |-> GoodText] }

\* what the PDF of a document and Gemini give in the behaviour explored
DocPdfs ==
    IF env.services = "flaky" THEN RunPdfs ELSE {[raises |-> FALSE, pages |-> <<GoodText>>]}
DocGeminis ==
    IF env.services = "flaky" THEN RunGeminis
    ELSE {[available |-> TRUE, raises |-> FALSE, text |-> GoodText]}

\* lines 180-195 with the append of line 195 under `if analysis_obj`
EndDocAnalysedOnly(r, id, analysis, ocr, caught) ==
    /\ frame' = [frame EXCEPT ![r].alerts_payload =
                                  IF analysis THEN Append(@, <<id, analysis>>) ELSE @,
                              ![r].idx = @ + 1,
                              ![r].text = NoneText,
                              ![r].analysis_obj = FALSE,
                              ![r].expired = FALSE,
                              ![r].ocr_docs = IF ocr THEN Append(@, id) ELSE @,
                              ![r].caught = caught]
    /\ pc' = [pc EXCEPT ![r] = AfterDoc(frame[r].new_regs, frame[r].idx + 1)]
    /\ exc' = exc

\* lines 180-181 and 193-195: the document is done; its payload item is
\* appended and the next iteration starts with text and analysis_obj None
EndDoc(r, id, analysis, ocr, caught) ==
    /\ frame' = [frame EXCEPT ![r].alerts_payload = Append(@, <<id, analysis>>),
                              ![r].idx = @ + 1,
                              ![r].text = NoneText,
                              ![r].analysis_obj = FALSE,
                              ![r].expired = FALSE,
                              ![r].ocr_docs = IF ocr THEN Append(@, id) ELSE @,
                              ![r].caught = caught]
    /\ pc' = [pc EXCEPT ![r] = AfterDoc(frame[r].new_regs, frame[r].idx + 1)]
    /\ exc' = exc

\* lines 183-185 and 190-195: reg.file_path loads the row again (the commit
\* before expired it); the query can fail, and a row purged meanwhile
\* raises ObjectDeletedError
ExtractStep(r) ==
    /\ pc[r] = "loop"
    /\ LET id == frame[r].new_regs[frame[r].idx]
       IN  \E ok \in Outcomes :
             IF ~ok THEN Raise(r, "OperationalError")
             ELSE IF ~HasId(regs, id) THEN Raise(r, "ObjectDeletedError")
             ELSE LET reg == RowById(regs, id)
                      file == [path |-> reg.file_path # << >>,
                               exists |-> FileExists(files, reg.file_path)]
                  IN  IF file.path /\ file.exists
                      THEN \E pdf \in DocPdfs, gemini \in DocGeminis :
                             LET res == extract_pdf_text(file, pdf, TRUE, gemini, MaxChars)
                                 caught == IF pdf.raises THEN {"decode"} ELSE {}
                             IN  IF res.raised THEN Raise(r, "PdfReadError")
                                 ELSE IF Truthy(res.text)
                                 THEN /\ frame' = [frame EXCEPT
                                                     ![r].text = res.text,
                                                     ![r].ocr_docs =
                                                        IF res.ocr THEN Append(@, id) ELSE @,
                                                     ![r].caught = caught]
                                      /\ pc' = [pc EXCEPT ![r] = "summarize"]
                                      /\ exc' = exc
                                 ELSE EndDoc(r, id, FALSE, res.ocr, caught)
                      ELSE EndDoc(r, id, FALSE, FALSE, {})
    /\ UNCHANGED <<dbvars, ret, spider_error, crawlvars, ex, env>>

\* what invoke_model gives: a botocore ClientError (throttling, access
\* denied), a connection error, no text block, or text (with or without a
\* "Domain:" line)
LLMErrors == {"ClientError", "ConnectionError"}
LLMOutcomes == LLMErrors \cup {"empty", "text", "domain"}
LLMAnswers == IF env.services = "flaky" THEN LLMOutcomes ELSE {"domain"}

\* lines 391-392 without lines 393-394
CaughtClientErrorOnly(error) == error = "ClientError"

\* lines 391-394: except ClientError, then except Exception
CaughtByAnalyze(error) == TRUE

\* lines 345-396 when invoke_model raises: the error is logged and None
\* returned, or it leaves analyze_with_bedrock
LLMFails(r, error, next) ==
    IF CaughtByAnalyze(error)
    THEN /\ frame' = [frame EXCEPT ![r].caught = {"llm"}]
         /\ pc' = [pc EXCEPT ![r] = next]
         /\ exc' = exc
    ELSE Raise(r, error)

\* app.py lines 186-189 with the classification under `if analysis_obj`
ClassifyOnlyAnalysed(analysis) == IF analysis THEN "classify" ELSE "loop"

\* app.py lines 186-189: the classification follows the summary call
\* whatever it returned
AfterSummary(analysis) == "classify"

\* analyze_with_bedrock(text, reg), lines 226-232 and 345-396, type "identify":
\* the analysis row is added and committed; every failure inside the try,
\* the commit's included, is logged and gives None
Summarize(r) ==
    /\ pc[r] = "summarize"
    /\ LET id == frame[r].new_regs[frame[r].idx]
           document_text == clean_for_bedrock(frame[r].text, BedrockMaxChars)
           proceed(analysis) == /\ pc' = [pc EXCEPT ![r] = AfterSummary(analysis)]
                                /\ exc' = exc
       IN  IF ~Truthy(document_text)
           THEN /\ frame' = [frame EXCEPT ![r].caught = {}]
                /\ proceed(FALSE) /\ UNCHANGED analyses
           ELSE \E out \in LLMAnswers, ok \in Outcomes :
                  IF out \in {"text", "domain"}
                  THEN /\ analyses' = IF ok THEN AddAnalysis(analyses, id) ELSE analyses
                       /\ frame' = [frame EXCEPT ![r].analysis_obj = ok, ![r].expired = TRUE,
                                                 ![r].caught = {}]
                       /\ proceed(ok)
                  ELSE IF out \in LLMErrors
                  THEN ok /\ LLMFails(r, out, AfterSummary(FALSE)) /\ UNCHANGED analyses
                  ELSE /\ ok /\ frame' = [frame EXCEPT ![r].caught = {}]
                       /\ proceed(FALSE) /\ UNCHANGED analyses
    /\ UNCHANGED <<regs, page_hashes, logs, files, clock, purges, ret, spider_error,
                   crawlvars, ex, env>>

\* extract_domain_from_summary and line 368: the row with its domain set
SetDomain(row) == [row EXCEPT !.domain = "Taxation"]

\* lines 373-387 reached by a classification: the answer is stored as an
\* analysis row
ClassifyStoresAnalysis(a, id) == AddAnalysis(a, id)

\* lines 365-370: a classification returns before an analysis row is built
ClassifyAnalyses(a, id) == a

\* analyze_with_bedrock(text, reg, type="classify"), lines 365-370: the
\* prompt reads regulation.title before the try, so for a row that a commit
\* expired the failure of the reload, or ObjectDeletedError once a purge
\* removed the row, goes to the caller
Classify(r) ==
    /\ pc[r] = "classify"
    /\ LET id == frame[r].new_regs[frame[r].idx]
           document_text == clean_for_bedrock(frame[r].text, BedrockMaxChars)
       IN  IF ~Truthy(document_text)
           THEN EndDoc(r, id, frame[r].analysis_obj, FALSE, {}) /\ UNCHANGED <<regs, analyses>>
           ELSE \E out \in LLMAnswers, ok \in Outcomes, loaded \in Outcomes :
                  IF frame[r].expired /\ ~loaded
                  THEN /\ out = "empty" /\ ok
                       /\ Raise(r, "OperationalError")
                       /\ UNCHANGED <<regs, analyses>>
                  ELSE IF frame[r].expired /\ ~HasId(regs, id)
                  THEN /\ out = "empty" /\ ok /\ loaded
                       /\ Raise(r, "ObjectDeletedError")
                       /\ UNCHANGED <<regs, analyses>>
                  ELSE IF out \in LLMErrors
                  THEN /\ loaded /\ ok /\ UNCHANGED <<regs, analyses>>
                       /\ IF CaughtByAnalyze(out)
                          THEN EndDoc(r, id, frame[r].analysis_obj, FALSE, {"llm"})
                          ELSE Raise(r, out)
                  ELSE /\ loaded
                       /\ EndDoc(r, id, frame[r].analysis_obj, FALSE, {})
                       /\ IF out \in {"text", "domain"}
                          THEN /\ regs' = IF ok /\ out = "domain"
                                          THEN {IF x.id = id THEN SetDomain(x) ELSE x : x \in regs}
                                          ELSE regs
                               /\ analyses' = IF ok THEN ClassifyAnalyses(analyses, id)
                                              ELSE analyses
                          ELSE ok /\ UNCHANGED <<regs, analyses>>
    /\ UNCHANGED <<page_hashes, logs, files, clock, purges, ret, spider_error,
                   crawlvars, ex, env>>

\* lines 201-210: nothing is sent without a payload or without recipients;
\* send_email returns False on failure and whatever building or sending
\* raises is caught and logged
NotifyOutcomes(payload) ==
    IF payload = << >> THEN {"skipped"}
    ELSE IF env.services = "flaky" THEN {"skipped", "sent", "failed"} ELSE {"sent"}

\* lines 200-209 without the except of line 208
NotifyErrorUncaught(n) == n # "failed"

\* lines 208-209 and email_utils.py lines 48-50: a failure is logged, by
\* send_email or by the except of line 208
NotifyErrorCaught(n) == TRUE

Notify(r) ==
    /\ pc[r] = "notify"
    /\ \E n \in NotifyOutcomes(frame[r].alerts_payload) :
         IF NotifyErrorCaught(n)
         THEN /\ frame' = [frame EXCEPT ![r].notified = n, ![r].caught = {}]
              /\ pc' = [pc EXCEPT ![r] = "commit"]
              /\ exc' = exc
         ELSE Raise(r, "SMTPException")
    /\ UNCHANGED <<dbvars, ret, spider_error, crawlvars, ex, env>>

\* lines 198-199 and 212-213: the ScrapeLog row as the run closes it
ClosedLog(log, found, new_downloads, now) ==
    [log EXCEPT !.completed_at = now, !.status = "success",
                !.regulations_found = found, !.new_downloads = new_downloads]

\* lines 224-226: the ScrapeLog row as the handler closes it
FailedLog(log, msg, now) ==
    [log EXCEPT !.completed_at = now, !.status = "failed", !.error_message = msg]

\* a commit that raises and yet stores what was pending
NotRolledBack(stored, pending) == pending

\* a commit that raises is rolled back: the stored row stays as it was
RolledBack(stored, pending) == stored

\* the analyses counted in line 188
AnalyzedCount(payload) == Cardinality({i \in 1..Len(payload) : payload[i][2]})

\* lines 212-220
Finalize(r) ==
    /\ pc[r] = "commit"
    /\ \E ok \in Outcomes :
         LET new_downloads == frame[r].count_after - frame[r].count_before
             closed == ClosedLog(logs[r], frame[r].count_after, new_downloads, clock)
         IN  IF ok
             THEN /\ logs' = [logs EXCEPT ![r] = closed]
                  /\ pc' = [pc EXCEPT ![r] = "done"]
                  /\ ret' = [ret EXCEPT ![r] =
                               <<new_downloads, AnalyzedCount(frame[r].alerts_payload)>>]
                  /\ frame' = [frame EXCEPT ![r] = NoFrame]
                  /\ exc' = exc
             ELSE /\ logs' = [logs EXCEPT ![r] = RolledBack(@, closed)]
                  /\ Raise(r, "OperationalError")
                  /\ ret' = ret
    /\ UNCHANGED <<regs, analyses, page_hashes, files, clock, purges, spider_error,
                   crawlvars, ex, env>>

\* lines 222-229.  The handler commits too: when that commit raises (a
\* session left inactive by a failed flush raises PendingRollbackError on
\* its next commit) the exception leaves scrape_regulations and the row
\* stays as stored
Handler(r) ==
    /\ pc[r] = "handler"
    /\ \E ok \in BOOLEAN :
         IF ok
         THEN /\ logs' = [logs EXCEPT ![r] = FailedLog(@, exc[r], clock)]
              /\ pc' = [pc EXCEPT ![r] = "done"]
              /\ ret' = [ret EXCEPT ![r] = <<0, 0>>]
         ELSE /\ logs' = [logs EXCEPT ![r] = RolledBack(@, FailedLog(@, exc[r], clock))]
              /\ pc' = [pc EXCEPT ![r] = "raised"]
              /\ ret' = ret
    /\ UNCHANGED <<regs, analyses, page_hashes, files, clock, purges, frame, exc,
                   spider_error, crawlvars, ex, env>>

(***************************************************************************)
(* simulate_new_regulations.                                               *)
(***************************************************************************)
PurgeCount == 5
PurgeSources == {"FBR", "SECP", "PCP"}

\* order_by(issue_date.desc(), discovered_at.desc()): x comes before y
Later(x, y) ==
    \/ x.issue_date > y.issue_date
    \/ x.issue_date = y.issue_date /\ Earlier(y, x)

\* lines 238-245: the latest `count` rows of one source
Latest(rows, count) == {x \in rows : Cardinality({y \in rows : Later(y, x)}) < count}

\* lines 236-246
PurgeSelection(rows) ==
    UNION {Latest({x \in rows : x.source = s}, PurgeCount) : s \in PurgeSources}

\* lines 286-288: PageHash.page_url.like("FBR:%")
LikeFBR(page_url) == page_url[1] = "FBR"

\* lines 266-288: what the three deletes leave of st = [regs, analyses,
\* page_hashes] for the selected rows
PurgeDeletes(st, sel) ==
    LET reg_ids == {x.id : x \in sel}
    IN  [regs |-> {x \in st.regs : x.id \notin reg_ids},
         analyses |-> [k \in DOMAIN st.analyses \ reg_ids |-> st.analyses[k]],
         page_hashes |-> {h \in st.page_hashes : ~LikeFBR(h.page_url)}]

\* deletes that are committed one by one: a failure after the first leaves
\* the analyses deleted
PurgeAbortedInParts(st, deleted) == [st EXCEPT !.analyses = deleted.analyses]

\* an exception before line 295 leaves the app context, whose teardown
\* removes the session and rolls the deletes back
PurgeAborted(st, deleted) == st

\* lines 232-303; with nothing selected it returns before any delete.  The
\* deletes become visible with the one commit of line 295.
\* analyze_recent_regulations calls it and then scrape_regulations, in one
\* thread: the purge is over before that run begins.
Purge ==
    /\ purges < env.purges
    /\ env.test_run # 0 => pc[env.test_run] = "idle"
    /\ LET sel == PurgeSelection(regs)
           st == [regs |-> regs, analyses |-> analyses, page_hashes |-> page_hashes]
       IN  IF sel = {}
           THEN /\ env.test_run # 0
                /\ UNCHANGED <<regs, analyses, page_hashes>>
           ELSE \E ok \in Outcomes :
                  LET out == IF ok THEN PurgeDeletes(st, sel)
                             ELSE PurgeAborted(st, PurgeDeletes(st, sel))
                  IN  /\ regs' = out.regs
                      /\ analyses' = out.analyses
                      /\ page_hashes' = out.page_hashes
    /\ purges' = purges + 1
    /\ UNCHANGED <<logs, files, clock, runvars, crawlvars, ex, env>>

(***************************************************************************)
(* extract_pdf_text on its own: one call, its arguments and what the file, *)
(* PyPDF and Gemini give drawn from the sets below.                        *)
(***************************************************************************)
ExFiles == { [path |-> FALSE, exists |-> FALSE],
             [path |-> TRUE, exists |-> FALSE],
             [path |-> TRUE, exists |-> TRUE] }

ExPdfs == { [raises |-> TRUE, pages |-> << >>],
            [raises |-> FALSE, pages |-> << >>],
            [raises |-> FALSE, pages |-> << << >>, << >> >>],
            [raises |-> FALSE, pages |-> <<GoodText>>],
            [raises |-> FALSE, pages |-> <<WeakText>>],
            [raises |-> FALSE, pages |-> <<Run("ws", 5) \o GoodText>>],
            [raises |-> FALSE, pages |-> <<Run("an", 199)>>],
            [raises |-> FALSE, pages |-> <<Run("an", 200)>>],
            [raises |-> FALSE, pages |-> <<Run("an", 400) \o Run("sy", 600)>>],
            [raises |-> FALSE, pages |-> <<Run("an", 399) \o Run("sy", 601)>>],
            [raises |-> FALSE, pages |-> <<Run("an", 500) \o Run("wm", WmLen)>>],
            [raises |-> FALSE, pages |-> <<Run("an", 990) \o Run("wm", WmLen)>>],
            [raises |-> FALSE, pages |-> <<Run("an", 7000), Run("an", 7000)>>] }

ExGeminis == { [available |-> FALSE, raises |-> FALSE, text |-> GoodText],
               [available |-> TRUE, raises |-> TRUE, text |-> NoneText],
               [available |-> TRUE, raises |-> FALSE, text |-> NoneText],
               [available |-> TRUE, raises |-> FALSE, text |-> << >>],
               [available |-> TRUE, raises |-> FALSE, text |-> Run("ws", 3)],
               [available |-> TRUE, raises |-> FALSE, text |-> GoodText],
               [available |-> TRUE, raises |-> FALSE, text |-> Run("ws", 1) \o WeakText],
               [available |-> TRUE, raises |-> FALSE, text |-> Run("an", 13000)] }

NoEnv == [runs |-> 0, purges |-> 0, faults |-> FALSE, site |-> "calm",
          services |-> "steady", test_run |-> 0]

InitExtract ==
    /\ Quiet
    /\ env = NoEnv
    /\ \E file \in ExFiles, pdf \in ExPdfs, use_ocr \in BOOLEAN, gemini \in ExGeminis :
         ex = [ExIdle EXCEPT !.file = file, !.pdf = pdf, !.use_ocr = use_ocr,
                             !.gemini = gemini]

Extract ==
    /\ ~ex.done
    /\ ex' = [ex EXCEPT !.done = TRUE,
                        !.out = extract_pdf_text(ex.file, ex.pdf, ex.use_ocr, ex.gemini,
                                                 MaxChars)]
    /\ UNCHANGED <<dbvars, runvars, crawlvars, env>>

NextExtract == Extract

SpecExtract == InitExtract /\ [][NextExtract]_vars

(***************************************************************************)
(* needs_ocr on its own: one call on a text drawn from GateTexts, a body   *)
(* between leading and trailing whitespace as PyPDF leaves it.             *)
(***************************************************************************)
GateBodies == { << >>,
                Run("an", 150),
                Run("an", 199),
                Run("an", 200),
                Run("an", 100) \o Run("ws", 50) \o Run("an", 100),
                Run("sy", 50),
                Run("an", 400) \o Run("sy", 600),
                Run("an", 399) \o Run("sy", 601),
                Run("an", 80) \o Run("sy", 120),
                Run("an", 190) \o Run("wm", WmLen),
                Run("an", 500) \o Run("wm", WmLen),
                Run("wm", WmLen) \o Run("an", 989),
                Run("an", 990) \o Run("wm", WmLen),
                Run("sy", 700) \o Run("wm", WmLen) \o Run("an", 300) }

Pad(n) == IF n = 0 THEN << >> ELSE Run("ws", n)

GateTexts ==
    {NoneText} \cup
    { Pad(lead) \o body \o Pad(trail) :
        lead \in {0, 3}, body \in GateBodies, trail \in {0, 100, 600} }

GateIdle == [text |-> NoneText, done |-> FALSE, out |-> FALSE]

InitGate ==
    /\ Quiet
    /\ env = NoEnv
    /\ \E text \in GateTexts : ex = [GateIdle EXCEPT !.text = text]

Gate ==
    /\ ~ex.done
    /\ ex' = [ex EXCEPT !.done = TRUE, !.out = needs_ocr(ex.text)]
    /\ UNCHANGED <<dbvars, runvars, crawlvars, env>>

NextGate == Gate

SpecGate == InitGate /\ [][NextGate]_vars

(***************************************************************************)
(* The change detection of parse_api on its own: listing pages fetched one *)
(* after the other, by whichever run, with the rows the site shows at that *)
(* moment.  The callbacks of all spiders run in the one reactor thread, so *)
(* the crawls of a page by overlapping runs are a sequence.                *)
(***************************************************************************)
MaxCrawls == 3

PageKeys == {FBRPageKey(Departments[i]) : i \in 1..Len(Departments)}

\* the SRO numbers a listing can show; "" is a row with no number, no
\* title and no file
ListedIds == {<<"a">>, <<"b">>, <<"a", "b">>}
Listings ==
    {<< >>, << << >> >>} \cup {<<x>> : x \in ListedIds}
        \cup {<<x, y>> : x \in ListedIds, y \in ListedIds}

\* the rows of a listing that shows these SRO numbers
IdRows(ids) ==
    [i \in 1..Len(ids) |->
        [SRONumber |-> ids[i], Title |-> << >>, CreationDate |-> RecentDate,
         UploadedFile1 |-> << >>]]

NoListing == <<"none">>

\* ex: the latest crawl, and for each page the listing and the time of the
\* latest crawl that recorded its digest
PagesIdle == [key |-> NoListing, ids |-> NoListing, before |-> NoListing, skipped |-> FALSE,
              listed |-> [k \in PageKeys |-> NoListing],
              recorded_at |-> [k \in PageKeys |-> 0]]

InitPages ==
    /\ Quiet
    /\ env = NoEnv
    /\ ex = PagesIdle

\* parse_api, lines 283-311 and 383: no rows, nothing is done; an unchanged
\* digest, the page is skipped; otherwise the digest is recorded
CrawlPage(key, ids) ==
    /\ clock < MaxCrawls
    /\ clock' = clock + 1
    /\ LET rows == IdRows(ids)
           current_hash == CurrentHash(rows)
           stored_hash == get_stored_hash(page_hashes, key)
           crawl_of(skipped) == [ex EXCEPT !.key = key, !.ids = ids, !.skipped = skipped,
                                           !.before = ex.listed[key]]
       IN  IF rows = << >>
           THEN /\ ex' = crawl_of(FALSE)
                /\ UNCHANGED page_hashes
           ELSE IF PageUnchanged(stored_hash, current_hash)
           THEN /\ ex' = crawl_of(TRUE)
                /\ UNCHANGED page_hashes
           ELSE /\ page_hashes' = store_hash(page_hashes, key, current_hash, clock + 1)
                /\ ex' = [crawl_of(FALSE) EXCEPT !.listed[key] = ids,
                                                 !.recorded_at[key] = clock + 1]
    /\ UNCHANGED <<regs, analyses, logs, files, purges, runvars, crawlvars, env>>

NextPages == \E key \in PageKeys, ids \in Listings : CrawlPage(key, ids)

SpecPages == InitPages /\ [][NextPages]_vars

(***************************************************************************)
(* The id and the file of two documents: what the spiders derive from the  *)
(* source, the reference number and the date of each.                      *)
(***************************************************************************)
PathDocs ==
    [source : {"FBR", "SECP", "PCP"},
     reference_number : {<<"1">>, <<"2">>, <<"1", " ">>, <<"1", "/">>, <<"1", "_">>},
     issue_date : {NoDate, OldDate, RecentDate}]

\* the regulation_id each spider's parse derives: SECP leaves the date out
SpiderId(doc) ==
    generate_regulation_id(SourceTag(doc.source), doc.reference_number,
                           IF doc.source = "SECP" THEN NoDate ELSE doc.issue_date)

InitPaths ==
    /\ Quiet /\ env = NoEnv
    /\ ex \in {[docs |-> <<a, b>>, done |-> FALSE, ids |-> << >>, paths |-> << >>] :
                  a \in PathDocs, b \in PathDocs}

\* parse and save_pdf of each spider, on both documents
DerivePaths ==
    /\ ~ex.done
    /\ ex' = [ex EXCEPT !.done = TRUE,
                        !.ids = <<SpiderId(ex.docs[1]), SpiderId(ex.docs[2])>>,
                        !.paths = <<SavePath(ex.docs[1]), SavePath(ex.docs[2])>>]
    /\ UNCHANGED <<dbvars, runvars, crawlvars, env>>

SpecPaths == InitPaths /\ [][DerivePaths]_vars

(***************************************************************************)
(* A listing crawled again and again by FBRSpider while the site replaces  *)
(* the file behind an SRO number: parse_api and the save_pdf callbacks of  *)
(* its requests, crawl after crawl.  The file of a row stands for the      *)
(* bytes it serves.                                                        *)
(***************************************************************************)
ReissueRows ==
    [SRONumber : {<<"1">>, <<"2">>}, Title : {<<"a">>}, CreationDate : {RecentDate},
     UploadedFile1 : {<<"a">>, <<"b">>}]

\* a listing shows one or two SRO numbers, each once
ReissueListings ==
    {<<x>> : x \in ReissueRows}
        \cup {<<x, y>> : x \in {z \in ReissueRows : z.SRONumber = <<"1">>},
                         y \in {z \in ReissueRows : z.SRONumber = <<"2">>}}

\* ex: the rows of the latest crawl, its save_pdf requests still to be
\* answered and the regulation_ids it requested
InitReissue ==
    /\ Quiet /\ env = NoEnv
    /\ ex = [listed |-> << >>, pending |-> {}, fetched |-> {}]

\* FBRSpider.parse_api, lines 283-383, on the listing of one department
ReissueParse(rows) ==
    /\ clock < MaxCrawls /\ ex.pending = {}
    /\ clock' = clock + 1
    /\ LET key == FBRPageKey(Departments[1])
           current_hash == CurrentHash(rows)
           stored_hash == get_stored_hash(page_hashes, key)
           st == FBRParseRows(rows, [regs |-> regs, reqs |-> {}, err |-> FALSE], clock + 1,
                              CutoffDate)
       IN  IF PageUnchanged(stored_hash, current_hash)
           THEN /\ ex' = [listed |-> rows, pending |-> {}, fetched |-> {}]
                /\ UNCHANGED <<regs, page_hashes>>
           ELSE /\ regs' = st.regs
                /\ page_hashes' = IF st.err THEN page_hashes
                                  ELSE store_hash(page_hashes, key, current_hash, clock + 1)
                /\ ex' = [listed |-> rows, pending |-> st.reqs,
                          fetched |-> {q.meta.regulation_id : q \in st.reqs}]
    /\ UNCHANGED <<analyses, logs, files, purges, runvars, crawlvars, env>>

\* FBRSpider.save_pdf, lines 433-472, for one request of the crawl
ReissueSave(req) ==
    /\ req \in ex.pending
    /\ LET path == SavePath(req.meta)
           ins == InsertRegulation(regs, ContentRow(req.meta, path, clock))
       IN  /\ files' = WriteFile(files, path, req.meta.content)
           /\ regs' = ins.rows
    /\ ex' = [ex EXCEPT !.pending = @ \ {req}]
    /\ UNCHANGED <<analyses, page_hashes, logs, clock, purges, runvars, crawlvars, env>>

NextReissue ==
    \/ \E rows \in ReissueListings : ReissueParse(rows)
    \/ \E req \in ex.pending : ReissueSave(req)

SpecReissue == InitReissue /\ [][NextReissue]_vars

(***************************************************************************)
(* The identity of FBR rows: two rows of a listing and the ids parse_api   *)
(* derives for them.                                                       *)
(***************************************************************************)
IdRowFields ==
    [SRONumber : {<< >>, <<"1">>}, Title : {<<"a">>, <<"b">>},
     CreationDate : {NoDate, RecentDate}, UploadedFile1 : {<< >>, <<"a">>}]

IdsIdle == [rows |-> << >>, done |-> FALSE, ids |-> << >>]

InitIdentity ==
    /\ Quiet /\ env = NoEnv
    /\ ex \in {[IdsIdle EXCEPT !.rows = <<a, b>>] : a \in IdRowFields, b \in IdRowFields}

DeriveIds ==
    /\ ~ex.done
    /\ ex' = [ex EXCEPT !.done = TRUE, !.ids = <<FBRId(ex.rows[1]), FBRId(ex.rows[2])>>]
    /\ UNCHANGED <<dbvars, runvars, crawlvars, env>>

NextIdentity == DeriveIds

SpecIdentity == InitIdentity /\ [][NextIdentity]_vars

(***************************************************************************)
(* The system.                                                             *)
(***************************************************************************)
Next ==
    \/ \E r \in RunIds : StartRun(r)
    \/ \E r \in RunIds : CountBefore(r)
    \/ \E r \in RunIds : CrawlNext(r)
    \/ \E r \in RunIds : \E req \in requests[r] : ParseApi(r, req)
    \/ \E r \in RunIds : \E req \in requests[r] : SecpParse(r, req)
    \/ \E r \in RunIds : \E req \in requests[r] : PcpParse(r, req)
    \/ \E r \in RunIds : \E req \in requests[r] : SavePdf(r, req)
    \/ \E r \in RunIds : RunSpidersReturn(r)
    \/ \E r \in RunIds : RunSpidersRaises(r)
    \/ \E r \in RunIds : CountAfter(r)
    \/ \E r \in RunIds : SelectNew(r)
    \/ \E r \in RunIds : ExtractStep(r)
    \/ \E r \in RunIds : Summarize(r)
    \/ \E r \in RunIds : Classify(r)
    \/ \E r \in RunIds : Notify(r)
    \/ \E r \in RunIds : Finalize(r)
    \/ \E r \in RunIds : Handler(r)
    \/ Purge

Spec == Init /\ [][Next]_vars

\* the steps of the run r: its own thread and the callbacks of its spiders
RunStep(r) ==
    \/ StartRun(r) \/ CountBefore(r) \/ CrawlNext(r)
    \/ \E req \in requests[r] :
          ParseApi(r, req) \/ SecpParse(r, req) \/ PcpParse(r, req) \/ SavePdf(r, req)
    \/ RunSpidersReturn(r) \/ RunSpidersRaises(r) \/ CountAfter(r) \/ SelectNew(r)
    \/ ExtractStep(r) \/ Summarize(r) \/ Classify(r) \/ Notify(r)
    \/ Finalize(r) \/ Handler(r)

\* every call returns or raises: a run that can take a step takes one
LiveSpec == Init /\ [][Next]_vars /\ \A r \in RunIds : WF_vars(RunStep(r))

(***************************************************************************)
(* Properties.                                                             *)
(***************************************************************************)
\* the regulation_id of the SRO both FBR departments list
SharedId == generate_regulation_id(SourceTag("FBR"), <<"1">>, RecentDate)

\* C1: in every reachable state no two Regulation rows have the same
\* regulation_id, whatever the interleaving of runs and spider callbacks.
C1_UniqueRegulationId ==
    \A x, y \in regs : x.regulation_id = y.regulation_id => x = y

\* Two overlapping runs have both requested the shared SRO, each from the
\* listing of one department; the first has stored it, the save of the
\* second met the stored row, one row persists.
C1_Witness ==
    /\ pc[1] = "run_spiders" /\ pc[2] = "run_spiders"
    /\ inserted[1] > 0 /\ inserted[2] = 0
    /\ last_write[2].kind = "conflict"
    /\ Cardinality({x \in regs : x.regulation_id = SharedId}) = 1

\* C2: a save of a document whose regulation_id is already stored completes
\* as a successful no-op: it raises no error.
C2_ConflictIsNoOp ==
    \A r \in RunIds : last_write[r].kind = "conflict" => ~last_write[r].raised

\* C3: when a crawler of a run has failed, every crawler after it in the
\* order FBR, SECP, PCP has still been invoked by the time run_spiders is over.
C3_LaterCrawlersInvoked ==
    \A r \in RunIds :
        spider_error[r] /\ pc[r] \notin {"idle", "count_before", "run_spiders"}
            => crawl[r] = NSpiders

\* C4: a run whose crawler raised and whose orchestration did not fail ends
\* with status success and no error_message; a ScrapeLog is failed only when
\* an orchestration step raised, never because of a crawler.
C4_CrawlerFailureIsNotFatal ==
    \A r \in RunIds :
        /\ spider_error[r] /\ pc[r] = "done" /\ exc[r] = "none"
             => logs[r].status = "success" /\ logs[r].error_message = "none"
        /\ logs[r].status = "failed"
             => exc[r] \in {"OperationalError", "ObjectDeletedError"}
        /\ logs[r].error_message \in {"none", "OperationalError", "ObjectDeletedError"}

\* a run finalized as success although FBR, its first crawler, raised
C4_Witness ==
    \E r \in RunIds :
        spider_error[r] /\ crawl[r] = 1 /\ pc[r] = "done" /\ logs[r].status = "success"

\* C5: a ScrapeLog is created with status running; its stored status changes
\* at most once, from running to success or to failed, and a row that is
\* success or failed is never written again.
C5_StatusChangesOnce ==
    [][\A r \in RunIds :
          /\ logs[r].status = "none" => logs'[r].status \in {"none", "running"}
          /\ logs[r].status = "running" => logs'[r].status \in {"running", "success", "failed"}
          /\ logs[r].status \in {"success", "failed"} => logs'[r] = logs[r]]_vars

\* the commit of line 214 raised, the handler has stored failed
C5_Witness ==
    \E r \in RunIds :
        /\ pc[r] = "done" /\ logs[r].status = "failed"
        /\ logs[r].regulations_found = 0 /\ inserted[r] > 0

\* C6: when an orchestration step of a run has raised, the run ends with a
\* ScrapeLog that is failed, has completed_at set and the exception's
\* message as error_message, and scrape_regulations returns (0, 0).
C6_FailureIsRecorded ==
    \A r \in RunIds :
        exc[r] # "none" /\ pc[r] \in {"done", "raised"}
            => /\ logs[r].status = "failed"
               /\ logs[r].completed_at # 0
               /\ logs[r].error_message = exc[r]
               /\ ret[r] = <<0, 0>>

\* C7: the new_downloads of a run finalized as success is the number of
\* Regulation rows the run's own spiders stored, and is not negative.
C7_NewDownloadsAreOwnInserts ==
    \A r \in RunIds :
        logs[r].status = "success"
            => logs[r].new_downloads = inserted[r] /\ logs[r].new_downloads >= 0

\* the PyPDF text of the call in ex
ExPrimary == PrimaryText(ex.pdf, MaxChars)

\* C8: extract_pdf_text invokes OCR exactly when the file exists, use_ocr
\* is true and the primary text is empty or fails needs_ocr.
C8_OcrIffGateAndAllowed ==
    ex.done =>
        (ex.out.ocr <=> /\ ex.file.path /\ ex.file.exists
                        /\ ex.use_ocr
                        /\ (~Truthy(ExPrimary) \/ needs_ocr(ExPrimary)))

\* OCR invoked for a primary text that is not empty and fails the gate
C8_Witness ==
    ex.done /\ ex.out.ocr /\ Truthy(ExPrimary) /\ needs_ocr(ExPrimary)

\* C9: within one run OCR is invoked at most once for each document.
C9_OcrOncePerDocument ==
    \A r \in RunIds :
        \A i, j \in 1..Len(frame[r].ocr_docs) :
            i # j => frame[r].ocr_docs[i] # frame[r].ocr_docs[j]

\* a run that has invoked OCR for two of its documents and goes on to the
\* summary and the classification of the second
C9_Witness ==
    \E r \in RunIds : Len(frame[r].ocr_docs) = 2 /\ pc[r] = "summarize"

\* what extract_pdf_text_with_gemini returns for the call in ex
ExOcr == extract_pdf_text_with_gemini(ex.file.exists, ex.gemini, MaxChars).text

\* C10: when extract_pdf_text has invoked OCR, a non-empty OCR text is the
\* result; when OCR gave nothing the result is the primary text; the result
\* is None exactly when both texts are empty.
C10_PreferOcrElsePrimary ==
    ex.done /\ ex.out.ocr =>
        /\ Truthy(ExOcr) => ex.out.text = ExOcr
        /\ ~Truthy(ExOcr) /\ Truthy(ExPrimary) => ex.out.text = ExPrimary
        /\ ex.out.text = NoneText <=> ~Truthy(ExOcr) /\ ~Truthy(ExPrimary)

\* OCR gave nothing for 50 characters of weak text: they are the result
C10_Witness ==
    /\ ex.done /\ ex.out.ocr /\ ~Truthy(ExOcr)
    /\ ExPrimary = WeakText /\ ex.out.text = WeakText

\* the text of the needs_ocr call in ex is None or ""
GateEmpty == ex.text = NoneText \/ TLen(ex.text) = 0

\* the ratio of alphanumeric or whitespace characters of t is below 0.4
NoisyText(t) == CleanLen(t) * CleanRatioDen < CleanRatioNum * TLen(t)

\* C11 as stated: needs_ocr returns true exactly when the text is empty, or
\* its stripped length is below 200, or the ratio of its alphanumeric or
\* whitespace characters to all its characters is below 0.4, or it holds
\* the watermark and its length is below 1000.
C11_GateAsStated ==
    ex.done =>
        (ex.out <=> \/ GateEmpty
                    \/ TLen(Strip(ex.text)) < MinTextLen
                    \/ NoisyText(ex.text)
                    \/ HasWatermark(ex.text) /\ TLen(ex.text) < WatermarkMaxLen)

\* C11, amended: needs_ocr returns true exactly when the text is empty, or,
\* for the text with its leading and trailing whitespace removed, the
\* length is below 200, or the ratio of alphanumeric or whitespace
\* characters to all characters is below 0.4, or the watermark is present
\* and the length is below 1000.
C11_GateOnStrippedText ==
    ex.done =>
        (ex.out <=> \/ GateEmpty
                    \/ TLen(Strip(ex.text)) < MinTextLen
                    \/ NoisyText(Strip(ex.text))
                    \/ HasWatermark(ex.text) /\ TLen(Strip(ex.text)) < WatermarkMaxLen)

\* a watermarked text of 1110 characters, 510 without the whitespace
\* after it, needs OCR
C11_Witness ==
    /\ ex.done /\ ex.out
    /\ ex.text = Run("an", 500) \o Run("wm", WmLen) \o Run("ws", 600)

\* C12 as stated: needs_ocr("") is true, and needs_ocr(text) is false for
\* every text of length at least 200 whose alphanumeric or whitespace
\* ratio is at least 0.4 and which does not hold the watermark while being
\* shorter than 1000 characters.
C12_CleanLongTextPasses ==
    ex.done =>
        /\ ex.text = << >> => ex.out
        /\ ( /\ ex.text # NoneText
             /\ TLen(ex.text) >= MinTextLen
             /\ ~NoisyText(ex.text)
             /\ ~(HasWatermark(ex.text) /\ TLen(ex.text) < WatermarkMaxLen) )
               => ~ex.out

\* C12, amended: needs_ocr("") is true, and needs_ocr(text) is false for
\* every text which, with its leading and trailing whitespace removed, has
\* length at least 200, an alphanumeric or whitespace ratio of at least
\* 0.4, and which does not hold the watermark while being shorter than
\* 1000 characters.
C12_CleanLongStrippedTextPasses ==
    ex.done =>
        /\ ex.text = << >> => ex.out
        /\ ( /\ ex.text # NoneText
             /\ TLen(Strip(ex.text)) >= MinTextLen
             /\ ~NoisyText(Strip(ex.text))
             /\ ~(HasWatermark(ex.text) /\ TLen(Strip(ex.text)) < WatermarkMaxLen) )
               => ~ex.out

\* 200 alphanumeric characters between whitespace pass the gate
C12_Witness ==
    /\ ex.done /\ ~ex.out
    /\ ex.text = Run("ws", 3) \o Run("an", 200) \o Run("ws", 100)

\* the document whose extraction the run r has just done: the one it is
\* about to summarize, or the one before the index it has moved on to
JustExtracted(r) ==
    IF pc[r] = "summarize" THEN frame[r].new_regs[frame[r].idx]
    ELSE frame[r].new_regs[frame[r].idx - 1]

\* C13: a PDF decoding error never leaves extract_pdf_text, so no run is
\* ended by one; when the decoding of a document has raised, the primary
\* text counts as empty (the text of the document is the OCR text or
\* none), OCR has been invoked for the document, and the run is at the
\* summary of that document or at the document after it.
C13_DecodeErrorIsContained ==
    \A r \in RunIds :
        /\ exc[r] # "PdfReadError" /\ logs[r].error_message # "PdfReadError"
        /\ "decode" \in frame[r].caught =>
              /\ pc[r] \in {"summarize", "loop", "notify"}
              /\ frame[r].ocr_docs # << >>
              /\ frame[r].ocr_docs[Len(frame[r].ocr_docs)] = JustExtracted(r)
              /\ pc[r] = "summarize" => frame[r].text \in {g.text : g \in RunGeminis}
              /\ pc[r] # "summarize" =>
                    frame[r].alerts_payload[Len(frame[r].alerts_payload)]
                        = <<JustExtracted(r), FALSE>>

\* the decoding of the first document of a run raised and OCR gave
\* nothing: the run is at its second document
C13_Witness ==
    \E r \in RunIds :
        /\ "decode" \in frame[r].caught /\ pc[r] = "loop" /\ frame[r].idx = 2
        /\ frame[r].ocr_docs = <<frame[r].new_regs[1]>>
        /\ Len(frame[r].new_regs) > 1

\* C14: an error of the LLM call of analyze_with_bedrock, identify or
\* classify, never leaves the call, so no run is ended by one; the step in
\* which the call failed adds no RegulationAnalysis row and gives no
\* analysis object, the run goes on to the classification or to the next
\* document, and while nothing else fails and no document is purged every
\* run ends as success.
C14_LLMFailureIsContained ==
    [][\A r \in RunIds :
          /\ exc'[r] \notin LLMErrors /\ logs'[r].error_message \notin LLMErrors
          /\ "llm" \in frame'[r].caught /\ frame'[r] # frame[r] =>
                /\ analyses' = analyses
                /\ pc'[r] \in {"classify", "loop", "notify"}
                /\ pc'[r] = "classify" => ~frame'[r].analysis_obj
                /\ pc[r] = "classify" =>
                      /\ frame'[r].idx = frame[r].idx + 1
                      /\ Len(frame'[r].alerts_payload) = frame[r].idx
          /\ ~env.faults /\ env.purges = 0 /\ pc'[r] = "done" =>
                logs'[r].status = "success"]_vars

\* both LLM calls of the only document of a run have failed; the run is
\* about to notify and to close its log
C14_Witness ==
    \E r \in RunIds :
        /\ "llm" \in frame[r].caught /\ pc[r] = "notify" /\ ~env.faults
        /\ Len(frame[r].alerts_payload) > 0
        /\ \A i \in 1..Len(frame[r].alerts_payload) : ~frame[r].alerts_payload[i][2]

\* the number of times x occurs in seq
Occurrences(seq, x) == Cardinality({i \in 1..Len(seq) : seq[i] = x})

\* u and v list the same identifiers, each as often, in any order
SameIdentifiers(u, v) ==
    /\ Len(u) = Len(v)
    /\ \A x \in Range(u) \cup Range(v) : Occurrences(u, x) = Occurrences(v, x)

\* C17: hash_urls gives one digest for any two orderings of the same
\* identifiers; a page whose rows are those of the crawl that recorded its
\* digest, in any order, has the recorded digest and is skipped.
C17_DigestIgnoresOrder ==
    /\ \A u, v \in Listings : SameIdentifiers(u, v) => hash_urls(u) = hash_urls(v)
    /\ ex.before # NoListing /\ ex.ids # << >> /\ SameIdentifiers(ex.ids, ex.before) =>
          /\ ex.skipped
          /\ get_stored_hash(page_hashes, ex.key) = hash_urls(ex.ids)

\* a page recorded with rows a, ab has been crawled again with the rows in
\* the order ab, a and skipped
C17_Witness ==
    /\ ex.skipped
    /\ ex.before = << <<"a">>, <<"a", "b">> >>
    /\ ex.ids = << <<"a", "b">>, <<"a">> >>

\* C18: after any sequence of store_hash calls there is exactly one
\* PageHash row for each page key recorded and none for any other; it holds
\* the digest and the time of the latest recording, so recording a key that
\* has a row updates the row and adds none.
C18_OneRowPerPageKey ==
    \A key \in PageKeys :
        LET rows == {h \in page_hashes : h.page_url = key}
        IN  IF ex.listed[key] = NoListing THEN rows = {}
            ELSE /\ Cardinality(rows) = 1
                 /\ \A h \in rows :
                        /\ h.content_hash = hash_urls(ex.listed[key])
                        /\ h.last_checked = ex.recorded_at[key]

\* the digest of a page has been recorded, and recorded again after the
\* listing changed
C18_Witness ==
    \E key \in PageKeys :
        /\ ex.key = key /\ ~ex.skipped
        /\ ex.before # NoListing /\ ex.listed[key] # ex.before
        /\ ex.recorded_at[key] > 1
        /\ Cardinality(page_hashes) = 1


(***************************************************************************)
(* Change detection of the FBR listings inside a run.                      *)
(***************************************************************************)
\* the step is parse_api of run r on the listing of dept
Parsed(r, dept) ==
    /\ ParseRequest("parse_api", dept) \in requests[r]
    /\ ParseRequest("parse_api", dept) \notin requests'[r]
    /\ pc'[r] = pc[r] /\ crawl'[r] = crawl[r]

\* ... and it returned at line 311: nothing requested, nothing stored
Skipped(r, dept) ==
    /\ Parsed(r, dept)
    /\ requests'[r] = requests[r] \ {ParseRequest("parse_api", dept)}
    /\ page_hashes' = page_hashes /\ regs' = regs

\* C15: a listing page is skipped only when a digest is stored for its page
\* key, that digest equals the digest computed now, and the run is not
\* forced (test_mode); a forced run never skips a page.
C15_SkipOnlyUnforcedAndUnchanged ==
    [][\A r \in RunIds, dept \in Range(Departments) :
         Skipped(r, dept) =>
           LET stored_hash == get_stored_hash(page_hashes, FBRPageKey(dept))
           IN  /\ stored_hash # << >>
               /\ stored_hash = CurrentHash(FBRRows(dept))
               /\ ~test_mode(r)]_vars

\* what parse_api derives for the k-th row of the listing of dept
ListedId(dept, k) == FBRId(FBRRows(dept)[k])

\* a save_pdf request of run r for the document is scheduled
Requested(reqs, regulation_id) ==
    \E q \in reqs : q.cb = "save_pdf" /\ q.meta.regulation_id = regulation_id

\* C16: whenever a run fetches a listing page, every listed item that the
\* store does not hold is discovered (requested for download or stored),
\* whether or not the page digest matched the stored one.
C16_AbsentItemsAreDiscovered ==
    [][\A r \in RunIds, dept \in Range(Departments) :
         Parsed(r, dept) =>
           \A k \in 1..Len(FBRRows(dept)) :
              ~regulation_exists(regs, ListedId(dept, k)) =>
                 \/ regulation_exists(regs', ListedId(dept, k))
                 \/ Requested(requests'[r], ListedId(dept, k))]_vars

(***************************************************************************)
(* Purges.                                                                 *)
(***************************************************************************)
\* C19: once a purge has committed, every RegulationAnalysis row references
\* a Regulation row that exists, also when the purge interleaves with a run
\* that is analysing the purged documents.
C19_AnalysesReferenceStoredDocuments ==
    purges > 0 =>
       \A id \in DOMAIN analyses : AnalysisCount(analyses, id) > 0 => HasId(regs, id)

\* every run of the behaviour has returned
Over == \A r \in 1..env.runs : pc[r] = "done"

\* the ids and paths under which the SECP and PCP spiders store a row
SECPRef(row) == generate_fallback_ref(WpdmUrl(row.wpdmdl))
SECPId(row) == generate_regulation_id(SourceTag("SECP"), SECPRef(row), NoDate)
PCPId(row) == generate_regulation_id(SourceTag("PCP"), row.job_id, row.date)

\* the purge cleared the digests of the FBR listings
DigestsCleared == \A h \in page_hashes : ~LikeFBR(h.page_url)

\* once the purge and the runs are over, every listed document that was
\* stored before is stored: the FBR rows (any crawl stores every listed
\* row) and each SECP and PCP document whose PDF is on disk
ListedDocumentsStored ==
    /\ \A dept \in Range(Departments) : \A k \in 1..Len(FBRRows(dept)) :
          regulation_exists(regs, ListedId(dept, k))
    /\ \A k \in 1..Len(SECPRows(env.site)) :
          FileExists(files, SECPFile(SECPRef(SECPRows(env.site)[k])))
             => regulation_exists(regs, SECPId(SECPRows(env.site)[k]))
    /\ \A k \in 1..Len(PCPRows(env.site)) :
          FileExists(files, PCPFile(PCPRows(env.site)[k].job_id, PCPRows(env.site)[k].date))
             => regulation_exists(regs, PCPId(PCPRows(env.site)[k]))

\* C20: a purge of documents clears the digests of their source's
\* listings, so the next fetch of such a listing is not skipped as
\* unchanged, and once the run that follows the purge is over every purged
\* document that is still listed is stored again.
C20_PurgedDocumentsAreStoredAgain ==
    [][/\ (purges' # purges /\ regs' # regs) => DigestsCleared'
       /\ \A r \in RunIds, dept \in Range(Departments) :
             Parsed(r, dept) /\ get_stored_hash(page_hashes, FBRPageKey(dept)) = << >>
                => ~Skipped(r, dept)
       /\ (env.test_run # 0 /\ purges' > 0 /\ Over') => ListedDocumentsStored']_vars

\* C21: a purge is atomic.  The step of simulate_new_regulations either
\* deletes the analyses of the selected documents, the documents and the
\* FBR digests together, or, when it fails before its commit, leaves all
\* of them in place; no step shows only some of the deletes.
C21_PurgeIsAtomic ==
    [][purges' # purges =>
         LET reg_ids == {x.id : x \in PurgeSelection(regs)}
         IN  \/ UNCHANGED <<regs, analyses, page_hashes>>
             \/ /\ regs' = regs \ PurgeSelection(regs)
                /\ \A id \in reg_ids : AnalysisCount(analyses', id) = 0
                /\ \A id \in DOMAIN analyses \ reg_ids :
                      AnalysisCount(analyses', id) = AnalysisCount(analyses, id)
                /\ page_hashes' = {h \in page_hashes : h.page_url[1] # "FBR"}]_vars

\* a purge has removed a document that the run in flight had analysed,
\* its analysis and the digests
C21_Witness ==
    /\ purges > 0 /\ regs = {} /\ DOMAIN analyses = {} /\ page_hashes = {}
    /\ \E r \in RunIds : \E i \in 1..Len(frame[r].alerts_payload) :
          frame[r].alerts_payload[i][2]

\* C22: the regulation_id of every stored row is generate_regulation_id of
\* the row's own source, reference_number and issue_date, with the NODATE
\* sentinel only for a row without issue_date.
C22_IdDerivedFromStoredFields ==
    \A x \in regs :
       x.regulation_id =
          generate_regulation_id(SourceTag(x.source), x.reference_number, x.issue_date)

\* run q ended as success before run r began
Before(q, r) ==
    /\ logs[q].status = "success"
    /\ logs[r].started_at # 0 /\ logs[q].completed_at < logs[r].started_at

DifferInTitleOnly(a, b) == a.Title # b.Title /\ [a EXCEPT !.Title = b.Title] = b

\* C24: for a row without reference number the fallback reference, and so
\* the regulation_id, is taken from the document's locator and never from
\* its title: two such rows that differ only in the title get one id.
C24_IdIgnoresTitle ==
    (ex.done /\ ex.rows[1].SRONumber = << >> /\ DifferInTitleOnly(ex.rows[1], ex.rows[2]))
       => ex.ids[1] = ex.ids[2]

(***************************************************************************)
(* The end of a run.                                                       *)
(***************************************************************************)
\* C25: a failure of the notification never changes the outcome of the
\* run: the step that notifies goes on to the commit whatever happened, and
\* a run whose notification failed is closed, when its commit succeeds, as
\* success with the counts of the run, as it is when the mail was sent.
C25_NotifierFailureIsContained ==
    [][\A r \in RunIds :
          /\ pc[r] = "notify" /\ pc'[r] # "notify" =>
                /\ pc'[r] = "commit" /\ exc'[r] = exc[r] /\ logs'[r] = logs[r]
                /\ frame'[r].count_before = frame[r].count_before
                /\ frame'[r].count_after = frame[r].count_after
                /\ frame'[r].alerts_payload = frame[r].alerts_payload
          /\ pc[r] = "commit" /\ pc'[r] = "done" =>
                /\ logs'[r].status = "success" /\ logs'[r].error_message = "none"
                /\ logs'[r].regulations_found = frame[r].count_after
                /\ logs'[r].new_downloads = frame[r].count_after - frame[r].count_before
                /\ ret'[r] = <<frame[r].count_after - frame[r].count_before,
                               AnalyzedCount(frame[r].alerts_payload)>>]_vars

\* the mail of a run with new documents could not be sent; the run is
\* about to commit its log
C25_Witness ==
    \E r \in RunIds :
        /\ pc[r] = "commit" /\ frame[r].notified = "failed"
        /\ frame[r].alerts_payload # << >>

\* the stored row of pk id has a file_path and the file is there
HasContent(id) ==
    /\ HasId(regs, id)
    /\ RowById(regs, id).file_path # << >>
    /\ FileExists(files, RowById(regs, id).file_path)

\* the items of the payload that report the document of pk id
Reports(payload, id) == {i \in 1..Len(payload) : payload[i][1] = id}

\* C26: a new document without stored content is never handed to the text
\* extraction or to the summarizer: the run's step on it calls neither,
\* adds no analysis row and appends the pair (document, no analysis) to the
\* payload of the digest; and when the loop is over every new document is
\* reported by exactly one item of the payload.
C26_NoContentIsReportedNotAnalysed ==
    [][\A r \in RunIds :
          /\ pc[r] = "loop" /\ frame'[r] # frame[r] /\ pc'[r] # "handler" =>
                LET id == frame[r].new_regs[frame[r].idx]
                IN  HasId(regs, id) /\ ~HasContent(id) =>
                      /\ pc'[r] \notin {"summarize", "classify"}
                      /\ frame'[r].text = NoneText
                      /\ frame'[r].ocr_docs = frame[r].ocr_docs
                      /\ analyses' = analyses
                      /\ frame'[r].alerts_payload = Append(frame[r].alerts_payload, <<id, FALSE>>)
          /\ pc'[r] \in {"notify", "commit"} =>
                /\ Len(frame'[r].alerts_payload) = Len(frame'[r].new_regs)
                /\ \A i \in 1..Len(frame'[r].new_regs) :
                      Cardinality(Reports(frame'[r].alerts_payload, frame'[r].new_regs[i])) = 1]_vars

\* the loop of a run is over, and one of its new documents, stored without
\* content, is in the payload without analysis
C26_Witness ==
    \E r \in RunIds :
        /\ pc[r] = "notify"
        /\ \E i \in 1..Len(frame[r].alerts_payload) :
              /\ HasId(regs, frame[r].alerts_payload[i][1])
              /\ RowById(regs, frame[r].alerts_payload[i][1]).file_path = << >>
              /\ frame[r].alerts_payload[i][2] = FALSE

\* what a step left of the row x: x itself, or x with another domain
SameButDomain(x, y) == y = [x EXCEPT !.domain = y.domain]

\* C27: a classification call creates no analysis row: over the step of a
\* run that classifies, the analysis rows are what they were, and the
\* document rows are what they were but for the domain of the document
\* classified.
C27_ClassifyStoresNoAnalysis ==
    [][\A r \in RunIds :
          pc[r] = "classify" /\ pc'[r] # "classify" =>
              LET id == frame[r].new_regs[frame[r].idx]
              IN  /\ analyses' = analyses
                  /\ \A x \in regs :
                        \/ x \in regs'
                        \/ x.id = id /\ \E y \in regs' : SameButDomain(x, y)
                  /\ Cardinality(regs') = Cardinality(regs)]_vars

\* a document whose summary failed and whose classification succeeded: its
\* domain is set and it has no analysis row
C27_Witness ==
    \E x \in regs : x.domain = "Taxation" /\ AnalysisCount(analyses, x.id) = 0

\* analysis rows are only added, and only by a summary call: a step that is
\* no purge deletes none, the step of a summary call adds one row for its
\* document when the call succeeds and none when it fails, and no other
\* step changes them
OnlySummariesAdd ==
    /\ purges' = purges =>
          \A id \in DOMAIN analyses : AnalysisCount(analyses', id) >= analyses[id]
    /\ \A r \in RunIds :
          pc[r] = "summarize" /\ pc'[r] = "classify" =>
              LET id == frame[r].new_regs[frame[r].idx]
              IN  /\ AnalysisCount(analyses', id) =
                        AnalysisCount(analyses, id) + IF frame'[r].analysis_obj THEN 1 ELSE 0
                  /\ \A other \in (DOMAIN analyses \cup DOMAIN analyses') \ {id} :
                        AnalysisCount(analyses', other) = AnalysisCount(analyses, other)
    /\ (purges' = purges /\ \A r \in RunIds : pc[r] = "summarize" => pc'[r] = "summarize")
          => analyses' = analyses

\* a document has as many analysis rows as summary calls succeeded on it,
\* for a document just stored: none
StoredWithoutAnalyses ==
    \A id \in {x.id : x \in regs'} \ {x.id : x \in regs} : AnalysisCount(analyses', id) = 0

\* C28: analysis rows are append-only: each successful summary call adds
\* exactly one row for its document, a failed call none, nothing but a
\* purge modifies or deletes a row, and so a document has as many rows as
\* summary calls succeeded on it.
C28_AnalysisRowsAppendOnly == [][OnlySummariesAdd /\ StoredWithoutAnalyses]_vars

(***************************************************************************)
(* Overlapping runs.                                                       *)
(***************************************************************************)
\* the run r is in flight
InFlight(r) == pc[r] \notin {"idle", "done"}

\* C29: runs are not mutually exclusive: while a run is in flight and its
\* record says running, the next call of scrape_regulations can start at
\* once, so that two records say running at the same time.
C29_RunsMayOverlap ==
    \A q \in RunIds, r \in RunIds :
        /\ InFlight(q) /\ logs[q].status = "running"
        /\ r = q + 1 /\ r <= env.runs /\ pc[r] = "idle"
        /\ test_mode(r) => purges > 0
        => ENABLED StartRun(r)

\* two runs in flight and both records say running
C29_Witness ==
    \E q \in RunIds, r \in RunIds :
        /\ q # r /\ InFlight(q) /\ InFlight(r)
        /\ logs[q].status = "running" /\ logs[r].status = "running"

(***************************************************************************)
(* Re-issued documents.                                                    *)
(***************************************************************************)
\* the crawl is over: parse_api has run and its requests are answered
CrawlOver == ex.listed # << >> /\ ex.pending = {}

\* the row of the listing is stored with the content_hash of other bytes
\* than the listing serves now
StoredStale(row) ==
    \E x \in regs : x.regulation_id = FBRId(row) /\ x.content_hash # row.UploadedFile1

\* C30: an item whose id is stored and that is listed again with changed
\* content is noticed by the crawl: when the crawl is over, the stored
\* content_hash is that of the content listed, or the crawl has requested
\* the document again.
C30_ReissueIsDetected ==
    CrawlOver =>
        \A i \in 1..Len(ex.listed) :
            StoredStale(ex.listed[i]) => FBRId(ex.listed[i]) \in ex.fetched

(***************************************************************************)
(* The loop over the new documents of a run.                               *)
(***************************************************************************)
\* the run r moves on from position p to position q
Moves(r, p, q) == pc[r] = p /\ pc'[r] = q

\* the run r stays with its document, or has finished it and is at the next
SameDoc(r) == frame'[r].idx = frame[r].idx /\ frame'[r].new_regs = frame[r].new_regs
NextDoc(r) == frame'[r].idx = frame[r].idx + 1 /\ frame'[r].new_regs = frame[r].new_regs

\* C31: the steps on a new document with content and text come in the
\* order extract, summarize, classify, each once: the extraction that gave
\* text is followed by the summary call on the same document, the summary
\* call, whatever it returned, by the classification of the same document,
\* and only the end of a document's steps (no text, or the classification)
\* takes the run to the next document, one document at a time.
C31_StepsInOrderOncePerDocument ==
    [][\A r \in RunIds :
          /\ pc[r] = "loop" /\ (pc'[r] # "loop" \/ frame'[r] # frame[r]) =>
                \/ Moves(r, "loop", "summarize") /\ SameDoc(r) /\ Truthy(frame'[r].text)
                \/ pc'[r] \in {"loop", "notify"} /\ NextDoc(r) /\ ~Truthy(frame'[r].text)
                \/ pc'[r] = "handler"
          /\ pc[r] = "summarize" /\ pc'[r] # "summarize" =>
                /\ pc'[r] = "classify" /\ SameDoc(r)
                /\ frame'[r].text = frame[r].text
          /\ pc[r] = "classify" /\ pc'[r] # "classify" =>
                \/ pc'[r] \in {"loop", "notify"} /\ NextDoc(r)
                      /\ frame'[r].alerts_payload =
                            Append(frame[r].alerts_payload,
                                   <<frame[r].new_regs[frame[r].idx], frame[r].analysis_obj>>)
                \/ pc'[r] = "handler"
          /\ pc'[r] \in {"summarize", "classify"} => pc[r] \in {"loop", "summarize", "classify"}
          /\ pc'[r] = "notify" /\ pc[r] # "notify" =>
                frame'[r].idx = Len(frame'[r].new_regs) + 1
          /\ pc[r] \in {"loop", "summarize", "classify"} =>
                frame[r].idx \in 1..Len(frame[r].new_regs)]_vars

\* a run classifies a document after a summary call that returned nothing
C31_Witness ==
    \E r \in RunIds :
        /\ pc[r] = "classify" /\ ~frame[r].analysis_obj /\ Truthy(frame[r].text)
        /\ frame[r].idx > 1

(***************************************************************************)
(* Termination.                                                            *)
(***************************************************************************)
\* C32: every run that is started reaches a terminal status: a record that
\* says running is later success or failed, store failures included.
C32_RunsReachTerminalStatus ==
    \A r \in RunIds :
        (logs[r].status = "running") ~> (logs[r].status \in {"success", "failed"})

(***************************************************************************)
(* The status of documents.                                                *)
(***************************************************************************)
DocumentStatuses == {"new", "tracked_no_pdf", "downloaded", "processed"}

\* C33: the status of every stored document is one of new, tracked_no_pdf,
\* downloaded, processed, and a document stored without file_path has
\* status tracked_no_pdf, the run that discovered it having gone on or
\* ended.
C33_MetadataOnlyStaysTracked ==
    \A x \in regs :
        /\ x.status \in DocumentStatuses
        /\ x.file_path = << >> => x.status = "tracked_no_pdf"

(***************************************************************************)
(* The new set of a run.                                                   *)
(***************************************************************************)
\* C34: when a run is closed as success, its new_downloads is the number
\* of pairs of its payload, whatever other runs and purges did meanwhile.
C34_NewDownloadsIsPayloadSize ==
    [][\A r \in RunIds :
          pc[r] = "commit" /\ pc'[r] = "done" /\ logs'[r].status = "success" =>
              logs'[r].new_downloads = Len(frame[r].alerts_payload)]_vars

\* C35: a stored document is in the new set of at most one run: where
\* nothing is purged (a pk names one document for good), no two runs hold
\* the same document in their new sets.
C35_NewSetsAreDisjoint ==
    env.purges = 0 =>
        \A q \in RunIds, r \in RunIds :
            q # r => Range(frame[q].new_regs) \cap Range(frame[r].new_regs) = {}

(***************************************************************************)
(* Page digests and pending downloads.                                     *)
(***************************************************************************)
\* the step records a digest for the listing of dept
DigestRecorded(dept) ==
    LET before == get_stored_hash(page_hashes, FBRPageKey(dept))
        after == get_stored_hash(page_hashes', FBRPageKey(dept))
    IN  after # << >> /\ after # before

\* C36: whenever a digest is recorded for a listing page every item of the
\* page is stored, and so a page is skipped as unchanged only when every
\* item listed on it is stored.
C36_DigestOnlyOfStoredItems ==
    [][\A dept \in Range(Departments) :
          /\ DigestRecorded(dept) =>
                \A k \in 1..Len(FBRRows(dept)) : regulation_exists(regs', ListedId(dept, k))
          /\ \A r \in RunIds :
                Skipped(r, dept) =>
                    \A k \in 1..Len(FBRRows(dept)) : regulation_exists(regs, ListedId(dept, k))]_vars

(***************************************************************************)
(* Stored files.                                                           *)
(***************************************************************************)
\* C37: for every document with a file_path, content_hash is the hash of
\* the bytes stored at that path now: no later save replaces the bytes
\* while the row keeps the content_hash of the old ones.
C37_ContentHashMatchesFile ==
    \A x \in regs :
        x.file_path # << >> =>
            \A f \in files : f.path = x.file_path => f.content = x.content_hash

\* C38: two documents with different regulation_ids never share a file:
\* the paths their save_pdf builds are different.
C38_DifferentIdsDifferentPaths ==
    ex.done /\ ex.ids[1] # ex.ids[2] => ex.paths[1] # ex.paths[2]

(***************************************************************************)
(* Digests of different listings.                                          *)
(***************************************************************************)
\* the identifiers a listing shows, as a set (a row without identifier
\* adds none)
IdSet(ids) == Range(ids) \ {<< >>}

\* C39: listings whose identifier sets differ get different digests, so a
\* page whose identifiers are not those of the crawl that recorded its
\* digest is never skipped as unchanged.
C39_ChangedListingIsNotSkipped ==
    ex.before # NoListing /\ IdSet(ex.ids) # IdSet(ex.before) => ~ex.skipped
=============================================================================
